---------------------------- MODULE Spec2Model ----------------------------
(***************************************************************************)
(* A model of the forward pheWAS engine (legaultmarc/forward): the work    *)
(* queue of forward.utils, the genotype and phenotype containers and the   *)
(* Experiment constructor.  Each part of the program has its own           *)
(* specification over its own variables; the variables of the other parts  *)
(* stay at their initial values.                                            *)
(***************************************************************************)
EXTENDS Integers, Sequences, FiniteSets, TLC

(***************************************************************************)
(* Bounds of the model.                                                    *)
(***************************************************************************)
MaxWorkers == 2
MaxJobs == 2
NSamples == 2
MaxCalls == 3
MaxTasks == 2

VARIABLES
    \* forward.utils.MultiprocessingQueue
    num_cpu,        \* self.num_cpu: the size of the pool
    job_queue,      \* self.job_queue, a FIFO multiprocessing.Queue
    results_queue,  \* self.results_queue, a FIFO multiprocessing.Queue
    wpc,            \* position of every worker process in _process
    wdata,          \* the local `data` of every worker process
    mpc,            \* position of the main process (the caller of the queue)
    pushed,         \* number of push_work calls made so far
    done_pushed,    \* done_pushing was called
    taken,          \* the values get_result returned, in order
    ncalls,         \* number of get_result calls started
    executed,       \* history: how many times f ran on each job
    exits,          \* history: how many times each worker left _process
    \* forward.genotype
    geno_file,      \* the genotype file: a vector of calls for every variant
    gdb,            \* the genotype database object and its attributes
    variants_table, \* the rows of the variants table of the experiment
    gres,           \* the last call made on the database and how it ended
    gcalls,         \* history: the arguments of the filter calls that succeeded
    gn,             \* number of configuration calls made on the database
    \* forward.phenotype.db.PandasPhenotypeDatabase
    data_index,     \* self.data.index: the sample of every row of self.data
    data,           \* self.data: for every phenotype, its column of values
    order_is_set,   \* self._order_is_set
    pres,           \* the last set_sample_order call and how it ended
    pn,             \* number of set_sample_order calls made on the database
    \* forward.experiment.Experiment
    estate,         \* how far the Experiment is: new, constructed or failed
    ejob,           \* the last job a task has built
    edir,           \* the run directory of the Experiment and its files
    eexc,           \* the exception Experiment(...) has raised
    \* forward.phenotype.db.PandasPhenotypeDatabase: related phenotypes
    cdata,          \* self.data of a database of discrete phenotypes
    ckinds,         \* the variables of the experiment: type and role of each
    cdb,            \* the exclusion attributes of the database
    cres,           \* the last call made on the database and how it ended
    cn,             \* number of calls made on the database
    cview,          \* whether .values of a column shares the memory of self.data
    \* forward.experiment.Experiment.run_tasks and forward.tasks
    rtasks,         \* self.tasks: the task objects and their attributes
    rresults,       \* the rows added to the results table, in order
    rfs,            \* the files of the run directory
    rexcl,          \* the related-phenotype exclusions: requested, table made
    rpc,            \* position of run_tasks
    rres,           \* the last call made and how it ended
    rcalls,         \* number of calls made on the Experiment and its tasks
    \* forward.tasks.LogisticTest.run_task: the job of a variant and a phenotype
    dgeno,          \* the vector get_genotypes returned for the variant
    dout,           \* the vector get_phenotype_vector returned for the outcome
    dcovars,        \* the vectors of the covariates of the task
    djob,           \* the tuple given to push_work
    \* forward.utils.Parallel: push_work of the two work queues
    wq,             \* the work queue: its class, its buffers, the jobs run
    wres,           \* the last call on the work queue and its outcome
    wn,             \* number of calls made on the work queue
    \* forward.utils.Parallel: the two work queues given the same calls
    bsingle,        \* the SingleCoreWorkQueue: self.results
    bmulti,         \* the MultiprocessingQueue: its channels and workers
    btaken,         \* what get_result has returned, for each of the two
    bpc,            \* the caller: pushing or draining, and its pushes
    \* forward.experiment.Experiment.run_tasks with regression tasks
    tcpu,           \* experiment.cpu
    ttasks,         \* the classes of the tasks, in configured order
    tpc,            \* where run_tasks is: the task, the step, num_tests
    tqueue,         \* self.parallel of the running task
    trows,          \* the rows added to the session
    thist           \* the jobs pushed and run, the tasks started and done

qvars == <<num_cpu, job_queue, results_queue, wpc, wdata, mpc, pushed,
           done_pushed, taken, ncalls, executed, exits>>

gvars == <<geno_file, gdb, variants_table, gres, gcalls, gn>>

pvars == <<data_index, data, order_is_set, pres, pn>>

evars == <<estate, ejob, edir, eexc>>

cvars == <<cdata, ckinds, cdb, cres, cn, cview>>

\* The variables of the parts of the program added after the four above.
rvars == <<rtasks, rresults, rfs, rexcl, rpc, rres, rcalls>>

dvars == <<dgeno, dout, dcovars, djob>>

wvars == <<wq, wres, wn>>

bvars == <<bsingle, bmulti, btaken, bpc>>

tvars == <<tcpu, ttasks, tpc, tqueue, trows, thist>>

yvars == <<bvars, tvars>>

xvars == <<cvars, rvars, dvars, wvars, yvars>>

vars == <<qvars, gvars, pvars, evars, xvars>>

notQueue == <<gvars, pvars, evars, xvars>>

notGeno == <<qvars, pvars, evars, xvars>>

notPheno == <<qvars, gvars, evars, xvars>>

notExclusion == <<qvars, gvars, pvars, evars, rvars, dvars, wvars, yvars>>

notRun == <<qvars, gvars, pvars, evars, cvars, dvars, wvars, yvars>>

notDesign == <<qvars, gvars, pvars, evars, cvars, rvars, wvars, yvars>>

notWork == <<qvars, gvars, pvars, evars, cvars, rvars, dvars, yvars>>

notBoth == <<qvars, gvars, pvars, evars, cvars, rvars, dvars, wvars, tvars>>

notTasks == <<qvars, gvars, pvars, evars, cvars, rvars, dvars, wvars, bvars>>

\* The related-phenotype variables when no exclusion is modelled.
CIdle ==
    /\ cdata = <<>>
    /\ ckinds = <<>>
    /\ cdb = [requested |-> FALSE, threshold |-> <<0, 1>>, mappings |-> {},
              initialized |-> FALSE]
    /\ cres = [method |-> "none", exc |-> "none", before |-> <<>>,
               fresh |-> FALSE, computed |-> 0]
    /\ cn = 0
    /\ cview = FALSE

\* The run variables when no run of tasks is modelled.
RIdle ==
    /\ rtasks = <<>>
    /\ rresults = <<>>
    /\ rfs = [work_dirs |-> {}, task_info |-> {}, experiment_info |-> 0,
            committed |-> 0, pickled |-> {}]
    /\ rexcl = [requested |-> FALSE, table |-> FALSE]
    /\ rpc = [at |-> "none", i |-> 0]
    /\ rres = [method |-> "none", exc |-> "none", task |-> 0,
               before |-> <<>>]
    /\ rcalls = 0

\* The job variables when no job is modelled.
DIdle ==
    /\ dgeno = <<>>
    /\ dout = <<>>
    /\ dcovars = <<>>
    /\ djob = [pushed |-> FALSE, x |-> <<>>, y |-> <<>>]

\* The work queue variables when no work queue is modelled.
WIdle ==
    /\ wq = [cls |-> "none", job_queue |-> <<>>, results |-> <<>>,
             executed |-> 0]
    /\ wres = [method |-> "none", exc |-> "none"]
    /\ wn = 0

\* The variables of the two work queues when they are not modelled.
BIdle ==
    /\ bsingle = <<>>
    /\ bmulti = [job_queue |-> <<>>, results_queue |-> <<>>, held |-> <<>>]
    /\ btaken = [single |-> <<>>, multi |-> <<>>]
    /\ bpc = [at |-> "none", pushed |-> <<>>]

\* The variables of run_tasks when no run is modelled.
TIdle ==
    /\ tcpu = 0
    /\ ttasks = <<>>
    /\ tpc = [at |-> "none", i |-> 0, k |-> 0, num_tests |-> 0]
    /\ tqueue = [job_queue |-> <<>>, results |-> <<>>, held |-> <<>>]
    /\ trows = <<>>
    /\ thist = [pushed |-> {}, run |-> {}, lost |-> {}, started |-> <<>>,
               done |-> <<>>]

YIdle == BIdle /\ TIdle

XIdle == CIdle /\ RIdle /\ DIdle /\ WIdle /\ YIdle

\* The phenotype variables when no phenotype database is modelled.
PIdle ==
    /\ data_index = <<>>
    /\ data = <<>>
    /\ order_is_set = FALSE
    /\ pres = [method |-> "none", exc |-> "none", sequence |-> <<>>,
               allow_subset |-> FALSE, before |-> <<>>]
    /\ pn = 0

\* The experiment variables when no Experiment is modelled.
EIdle ==
    /\ estate = "none"
    /\ ejob = [variant |-> "none", x |-> <<>>, y |-> <<>>]
    /\ edir = [exists |-> FALSE, files |-> {}]
    /\ eexc = "none"

\* The genotype variables when no genotype database is modelled.
GIdle ==
    /\ geno_file = <<>>
    /\ gdb = [cls |-> "none"]
    /\ variants_table = {}
    /\ gres = [method |-> "none", exc |-> "none"]
    /\ gcalls = [maf |-> {}, completion |-> {}, name |-> {}]
    /\ gn = 0

\* The queue variables when no work queue is modelled.
QIdle ==
    /\ num_cpu = 0
    /\ job_queue = <<>>
    /\ results_queue = <<>>
    /\ wpc = <<>>
    /\ wdata = <<>>
    /\ mpc = "none"
    /\ pushed = 0
    /\ done_pushed = FALSE
    /\ taken = <<>>
    /\ ncalls = 0
    /\ executed = <<>>
    /\ exits = <<>>

(***************************************************************************)
(* forward.utils.MultiprocessingQueue                                      *)
(***************************************************************************)
\* The sentinel done_pushing puts on the job channel.
None == [type |-> "None", arg |-> 0]

\* The tuple of arguments of the j-th push_work call.
JobTuple(j) == [type |-> "tuple", arg |-> j]

Jobs == 1..MaxJobs

\* The process pool built by __init__.
pool == 1..num_cpu

\* f(*data): the target function returns one result for its job.  Both
\* _work functions of forward.tasks catch every Exception and return.
f(args) == [type |-> "result", arg |-> args.arg]

\* The truth value of the attribute p.is_alive the code reads in get_result.
\* It is the bound method itself, never called, and a method object is true.
IsAliveAttr(p) == TRUE

\* all([not p.is_alive for p in self.pool])
AllNotAlive == \A p \in pool : ~IsAliveAttr(p)

QInit ==
    /\ num_cpu \in 1..MaxWorkers
    /\ job_queue = <<>>
    /\ results_queue = <<>>
    /\ wpc = [p \in 1..MaxWorkers |-> "get"]
    /\ wdata = [p \in 1..MaxWorkers |-> None]
    /\ mpc = "pushing"
    /\ pushed = 0
    /\ done_pushed = FALSE
    /\ taken = <<>>
    /\ ncalls = 0
    /\ executed = [j \in Jobs |-> 0]
    /\ exits = [p \in 1..MaxWorkers |-> 0]
    /\ GIdle
    /\ PIdle
    /\ EIdle
    /\ XIdle

\* push_work(tu) with a tuple: self.job_queue.put(tu).
PushWork ==
    /\ mpc = "pushing"
    /\ pushed < MaxJobs
    /\ pushed' = pushed + 1
    /\ job_queue' = Append(job_queue, JobTuple(pushed + 1))
    /\ UNCHANGED <<num_cpu, results_queue, wpc, wdata, mpc, done_pushed,
                   taken, ncalls, executed, exits>>
    /\ UNCHANGED notQueue

DonePushing_SentinelPerWorker ==
    /\ mpc = "pushing"
    /\ job_queue' = job_queue \o [p \in 1..num_cpu |-> None]
    /\ done_pushed' = TRUE
    /\ mpc' = "idle"
    /\ UNCHANGED <<num_cpu, results_queue, wpc, wdata, pushed, taken, ncalls,
                   executed, exits>>
    /\ UNCHANGED notQueue

\* done_pushing(): self.job_queue.put(None).
DonePushing ==
    /\ mpc = "pushing"
    /\ job_queue' = Append(job_queue, None)
    /\ done_pushed' = TRUE
    /\ mpc' = "idle"
    /\ UNCHANGED <<num_cpu, results_queue, wpc, wdata, pushed, taken, ncalls,
                   executed, exits>>
    /\ UNCHANGED notQueue

\* get_result(), first operand of the condition: self.job_queue.empty().
\* The caller drains once per pushed job and may call once more.
GetResultCheckJobs ==
    /\ mpc = "idle"
    /\ ncalls < pushed + 1
    /\ ncalls' = ncalls + 1
    /\ mpc' = IF job_queue = <<>> THEN "gr_results" ELSE "gr_get"
    /\ UNCHANGED <<num_cpu, job_queue, results_queue, wpc, wdata, pushed,
                   done_pushed, taken, executed, exits>>
    /\ UNCHANGED notQueue

\* get_result(), second operand: self.results_queue.empty().
GetResultCheckResults ==
    /\ mpc = "gr_results"
    /\ mpc' = IF results_queue = <<>> THEN "gr_alive" ELSE "gr_get"
    /\ UNCHANGED <<num_cpu, job_queue, results_queue, wpc, wdata, pushed,
                   done_pushed, taken, ncalls, executed, exits>>
    /\ UNCHANGED notQueue

\* get_result(), the test on the pool: close the result queue and return
\* None when it holds, go on to the blocking get otherwise.
GetResultCheckAlive ==
    /\ mpc = "gr_alive"
    /\ IF AllNotAlive
          THEN /\ taken' = Append(taken, None)
               /\ mpc' = "idle"
          ELSE /\ taken' = taken
               /\ mpc' = "gr_get"
    /\ UNCHANGED <<num_cpu, job_queue, results_queue, wpc, wdata, pushed,
                   done_pushed, ncalls, executed, exits>>
    /\ UNCHANGED notQueue

\* get_result(): return self.results_queue.get(), which blocks while the
\* result queue is empty.
GetResultGet ==
    /\ mpc = "gr_get"
    /\ results_queue # <<>>
    /\ taken' = Append(taken, Head(results_queue))
    /\ results_queue' = Tail(results_queue)
    /\ mpc' = "idle"
    /\ UNCHANGED <<num_cpu, job_queue, wpc, wdata, pushed, done_pushed,
                   ncalls, executed, exits>>
    /\ UNCHANGED notQueue

\* _process: data = self.job_queue.get(), taking the head of the queue.
WorkerGet_Peek(p) ==
    /\ wpc[p] = "get"
    /\ job_queue # <<>>
    /\ wdata' = [wdata EXCEPT ![p] = Head(job_queue)]
    /\ job_queue' = job_queue
    /\ wpc' = [wpc EXCEPT ![p] =
                  IF Head(job_queue) = None THEN "relay" ELSE "run"]
    /\ UNCHANGED <<num_cpu, results_queue, mpc, pushed, done_pushed, taken,
                   ncalls, executed, exits>>
    /\ UNCHANGED notQueue

WorkerGet(p) ==
    /\ wpc[p] = "get"
    /\ job_queue # <<>>
    /\ wdata' = [wdata EXCEPT ![p] = Head(job_queue)]
    /\ job_queue' = Tail(job_queue)
    /\ wpc' = [wpc EXCEPT ![p] =
                  IF Head(job_queue) = None THEN "relay" ELSE "run"]
    /\ UNCHANGED <<num_cpu, results_queue, mpc, pushed, done_pushed, taken,
                   ncalls, executed, exits>>
    /\ UNCHANGED notQueue

\* _process, data is None: put the sentinel back and break (the process ends).
WorkerRelay_NoPutBack(p) ==
    /\ wpc[p] = "relay"
    /\ job_queue' = job_queue
    /\ wpc' = [wpc EXCEPT ![p] = "exited"]
    /\ wdata' = [wdata EXCEPT ![p] = None]
    /\ exits' = [exits EXCEPT ![p] = @ + 1]
    /\ UNCHANGED <<num_cpu, results_queue, mpc, pushed, done_pushed, taken,
                   ncalls, executed>>
    /\ UNCHANGED notQueue

WorkerRelay(p) ==
    /\ wpc[p] = "relay"
    /\ job_queue' = Append(job_queue, wdata[p])
    /\ wpc' = [wpc EXCEPT ![p] = "exited"]
    /\ wdata' = [wdata EXCEPT ![p] = None]
    /\ exits' = [exits EXCEPT ![p] = @ + 1]
    /\ UNCHANGED <<num_cpu, results_queue, mpc, pushed, done_pushed, taken,
                   ncalls, executed>>
    /\ UNCHANGED notQueue

\* _process: results = self.f(*data); self.results_queue.put(results).
WorkerRun(p) ==
    /\ wpc[p] = "run"
    /\ executed' = [executed EXCEPT ![wdata[p].arg] = @ + 1]
    /\ wdata' = [wdata EXCEPT ![p] = f(wdata[p])]
    /\ wpc' = [wpc EXCEPT ![p] = "put"]
    /\ UNCHANGED <<num_cpu, job_queue, results_queue, mpc, pushed,
                   done_pushed, taken, ncalls, exits>>
    /\ UNCHANGED notQueue

WorkerPut(p) ==
    /\ wpc[p] = "put"
    /\ results_queue' = Append(results_queue, wdata[p])
    /\ wdata' = [wdata EXCEPT ![p] = None]
    /\ wpc' = [wpc EXCEPT ![p] = "get"]
    /\ UNCHANGED <<num_cpu, job_queue, mpc, pushed, done_pushed, taken,
                   ncalls, executed, exits>>
    /\ UNCHANGED notQueue

Worker(p) == WorkerGet(p) \/ WorkerRelay(p) \/ WorkerRun(p) \/ WorkerPut(p)

MainProcess ==
    \/ PushWork
    \/ DonePushing
    \/ GetResultCheckJobs
    \/ GetResultCheckResults
    \/ GetResultCheckAlive
    \/ GetResultGet

QNext == MainProcess \/ \E p \in pool : Worker(p)

\* The operating system schedules every process that can run.
QFairness ==
    /\ WF_vars(GetResultCheckJobs \/ GetResultCheckResults
                 \/ GetResultCheckAlive \/ GetResultGet)
    /\ WF_vars(DonePushing)
    /\ \A p \in 1..MaxWorkers : WF_vars(p \in pool /\ Worker(p))

QueueSpec == QInit /\ [][QNext]_vars /\ QFairness


(***************************************************************************)
(* Claims about the work queue.                                            *)
(***************************************************************************)
\* The number of elements of the sequence s equal to x.
CountIn(s, x) == Cardinality({i \in DOMAIN s : s[i] = x})

\* The number of places holding job j: waiting in the job channel, held by a
\* worker (before or after f ran), waiting in the result channel, or returned
\* by get_result.
Copies(j) ==
    CountIn(job_queue, JobTuple(j))
    + Cardinality({p \in pool : wpc[p] = "run" /\ wdata[p] = JobTuple(j)})
    + Cardinality({p \in pool : wpc[p] = "put" /\ wdata[p] = f(JobTuple(j))})
    + CountIn(results_queue, f(JobTuple(j)))
    + CountIn(taken, f(JobTuple(j)))

\* The caller has completed one get_result call per pushed job.
Drained == done_pushed /\ mpc = "idle" /\ ncalls >= pushed

C1_NoJobLostOrDuplicated ==
    /\ \A j \in Jobs :
          /\ Copies(j) = (IF j <= pushed THEN 1 ELSE 0)
          /\ executed[j] <= 1
          /\ (CountIn(results_queue, f(JobTuple(j)))
                + CountIn(taken, f(JobTuple(j))) > 0 => executed[j] = 1)
    /\ Len(taken) <= pushed => CountIn(taken, None) = 0
    /\ Drained => /\ Len(taken) >= pushed
                  /\ \A j \in 1..pushed :
                        /\ CountIn(SubSeq(taken, 1, pushed), f(JobTuple(j))) = 1
                        /\ executed[j] = 1

AllWorkersExited == \A p \in pool : wpc[p] = "exited"

NoJobWaiting == \A i \in DOMAIN job_queue : job_queue[i] = None

\* C2: once done_pushing was called, the k results were taken, no job and no
\* result is waiting and every worker has exited, a further get_result call
\* returns instead of blocking in results_queue.get().
C2_FurtherGetResultReturns ==
    (/\ done_pushed
     /\ Len(taken) = pushed
     /\ ncalls = pushed + 1
     /\ NoJobWaiting
     /\ results_queue = <<>>
     /\ AllWorkersExited) => mpc # "gr_get"

\* C3: after done_pushing every worker of the pool eventually takes the
\* sentinel, puts it back and exits, no worker exits twice, and no worker
\* has taken the sentinel while a pushed job is still waiting in the job
\* channel.
C3_EveryWorkerExitsOnce ==
    /\ [](\A p \in 1..MaxWorkers : exits[p] <= 1)
    /\ [](\A p \in pool :
             wpc[p] \in {"relay", "exited"} => NoJobWaiting)
    /\ (done_pushed ~>
           (/\ \A p \in pool : wpc[p] = "exited" /\ exits[p] = 1
            /\ job_queue = <<None>>))

C3_Witness ==
    /\ num_cpu >= 2
    /\ pushed >= 1
    /\ AllWorkersExited
    /\ \A p \in pool : exits[p] = 1


\* The sentinels of the system: those waiting in the job channel and those
\* a worker has taken and not yet put back.
Sentinels ==
    CountIn(job_queue, None)
    + Cardinality({p \in pool : wpc[p] = "relay" /\ wdata[p] = None})

\* C27: before done_pushing there is no sentinel; in every state after it
\* there is exactly one, in the job channel or with the one worker that is
\* about to put it back; when every worker has exited the sentinel is in
\* the job channel, which is not empty.
C27_SentinelExactlyOnce ==
    /\ Sentinels = IF done_pushed THEN 1 ELSE 0
    /\ Cardinality({p \in pool : wpc[p] = "relay"}) <= 1
    /\ (done_pushed /\ AllWorkersExited) =>
          /\ CountIn(job_queue, None) = 1
          /\ job_queue # <<>>

\* A worker has exited and another one holds the sentinel, about to put it
\* back in an empty job channel.
C27_Witness ==
    /\ done_pushed
    /\ pushed >= 1
    /\ job_queue = <<>>
    /\ \E p, q \in pool :
          /\ wpc[p] = "relay"
          /\ wdata[p] = None
          /\ wpc[q] = "exited"

(***************************************************************************)
(* forward.genotype: Variant, MemoryImpute2Geno, PlinkGenotypeDatabase     *)
(***************************************************************************)
\* The missing call (numpy.nan) of a genotype vector.
NaN == -1

\* The calls of a vector: 0 or 1 copy of the counted allele, or missing.
GenoValues == {0, 1, NaN}

Variants == {"rs1", "rs2"}

\* The samples of the genotype file, in file order.
GenoSamples == [i \in 1..NSamples |-> i]

\* A sample identifier no source knows.
UnknownSample == NSamples + 1

\* Thresholds are fractions <<numerator, denominator>>.
Zero == <<0, 1>>
MafRates == {<<1, 4>>, <<1, 2>>}
CompletionRates == {<<1, 2>>, <<1, 1>>}
NameLists == {{"rs1"}, {"rs2"}}
ExcludeLists == {<<1>>, <<1, UnknownSample>>}

\* a/b < t for b > 0; a comparison with the NaN quotient 0/0 is false.
Less(a, b, t) == b > 0 /\ a * t[2] < t[1] * b

\* np.isnan(x)
IsNaN(x) == x = NaN

RECURSIVE NanSumFrom(_, _)
NanSumFrom(vect, i) ==
    IF i > Len(vect) THEN 0
    ELSE (IF IsNaN(vect[i]) THEN 0 ELSE vect[i]) + NanSumFrom(vect, i + 1)

\* np.nansum(vect)
NanSum(vect) == NanSumFrom(vect, 1)

\* np.sum(np.isnan(vect))
CountNaN(vect) == Cardinality({i \in DOMAIN vect : IsNaN(vect[i])})

\* np.sum(~np.isnan(vect))
CountNotNaN(vect) == Cardinality({i \in DOMAIN vect : ~IsNaN(vect[i])})

\* Variant.maf of a row: mac / (2 * n_non_missing), compared.
MafLess(row, t) == Less(row.mac, 2 * row.n_non_missing, t)

\* Variant.completion_rate of a row, compared.
CompletionLess(row, t) ==
    Less(row.n_non_missing, row.n_non_missing + row.n_missing, t)

\* MemoryImpute2Geno.__init__
NewMemoryImpute2Geno ==
    [cls |-> "MemoryImpute2Geno", samples |-> GenoSamples,
     thresh_completion |-> Zero, thresh_maf |-> Zero, names |-> {},
     has_mask |-> FALSE, samples_mask |-> <<>>, frozen |-> FALSE,
     has_mat |-> FALSE, mat |-> <<>>]

\* PlinkGenotypeDatabase.__init__
NewPlinkGenotypeDatabase ==
    [cls |-> "PlinkGenotypeDatabase", samples |-> GenoSamples,
     min_maf |-> Zero, min_completion |-> Zero, good_names |-> {},
     has_min_rate |-> FALSE, min_rate |-> Zero, frozen |-> FALSE]

NewDatabase(cls) ==
    IF cls = "MemoryImpute2Geno" THEN NewMemoryImpute2Geno
    ELSE NewPlinkGenotypeDatabase

\* The assignment of filter_completion.
SetCompletion(db, rate) ==
    IF db.cls = "MemoryImpute2Geno"
    THEN [db EXCEPT !.thresh_completion = rate]
    ELSE [db EXCEPT !.min_rate = rate, !.has_min_rate = TRUE]

\* The assignment of filter_maf.
SetMaf(db, maf) ==
    IF db.cls = "MemoryImpute2Geno"
    THEN [db EXCEPT !.thresh_maf = maf]
    ELSE [db EXCEPT !.min_maf = maf]

\* The assignment of filter_name, called with a list of names.
SetNames(db, names_list) ==
    IF db.cls = "MemoryImpute2Geno"
    THEN [db EXCEPT !.names = names_list]
    ELSE [db EXCEPT !.good_names = names_list]

\* The row experiment_init adds for a variant.  Both classes count the
\* missing calls on the whole vector of the file; the minor allele count of
\* the IMPUTE2 reader is taken to be the sum of the dosages.
VariantRow(name) ==
    [name |-> name,
     mac |-> NanSum(geno_file[name]),
     n_missing |-> CountNaN(geno_file[name]),
     n_non_missing |-> CountNotNaN(geno_file[name])]

\* info["maf"] of the IMPUTE2 reader, compared: the frequency over the
\* non-missing dosages.
Impute2MafLess(dosage, t) == Less(NanSum(dosage), 2 * CountNotNaN(dosage), t)

\* MemoryImpute2Geno.experiment_init: the filters a variant goes through.
MemoryKeeps(db, name) ==
    LET dosage == geno_file[name] IN
    /\ ~(db.names # {} /\ name \notin db.names)
    /\ ~(/\ db.thresh_completion # Zero
         /\ Less(CountNotNaN(dosage), Len(dosage), db.thresh_completion))
    /\ ~Impute2MafLess(dosage, db.thresh_maf)

\* PlinkGenotypeDatabase.experiment_init: the filters a variant goes through.
PlinkKeeps(db, name) ==
    LET geno == geno_file[name] IN
    /\ ~(db.good_names # {} /\ name \notin db.good_names)
    /\ ~Less(NanSum(geno), 2 * Len(geno), db.min_maf)
    /\ ~Less(CountNotNaN(geno), Len(geno), db.min_completion)

\* The names of the variants experiment_init lets through.
Kept(db) ==
    IF db.cls = "MemoryImpute2Geno"
    THEN {name \in Variants : MemoryKeeps(db, name)}
    ELSE {name \in Variants : PlinkKeeps(db, name)}

\* dosage[self.samples_mask]
Masked(dosage, mask) ==
    LET RECURSIVE Sel(_)
        Sel(i) == IF i > Len(dosage) THEN <<>>
                  ELSE (IF mask[i] THEN <<dosage[i]>> ELSE <<>>) \o Sel(i + 1)
    IN Sel(1)

GInit ==
    /\ geno_file \in [Variants -> [1..NSamples -> GenoValues]]
    /\ gdb \in {NewMemoryImpute2Geno, NewPlinkGenotypeDatabase}
    /\ variants_table = {}
    /\ gres = [method |-> "none", exc |-> "none"]
    /\ gcalls = [maf |-> {}, completion |-> {}, name |-> {}]
    /\ gn = 0
    /\ QIdle
    /\ PIdle
    /\ EIdle
    /\ XIdle

\* The outcome of a configuration call on a frozen database.
RaiseFrozen(method) ==
    /\ gres' = [method |-> method, exc |-> "FrozenDatabaseError"]
    /\ UNCHANGED <<gdb, variants_table, gcalls>>

\* filter_completion(rate)
FilterCompletion_NoFrozenCheck(rate) ==
    /\ gn < MaxCalls
    /\ gn' = gn + 1
    /\ gdb' = SetCompletion(gdb, rate)
    /\ gcalls' = [gcalls EXCEPT !.completion = @ \cup {rate}]
    /\ gres' = [method |-> "filter_completion", exc |-> "none"]
    /\ UNCHANGED variants_table
    /\ UNCHANGED <<geno_file, notGeno>>

FilterCompletion(rate) ==
    /\ gn < MaxCalls
    /\ gn' = gn + 1
    /\ IF gdb.frozen
       THEN RaiseFrozen("filter_completion")
       ELSE /\ gdb' = SetCompletion(gdb, rate)
            /\ gcalls' = [gcalls EXCEPT !.completion = @ \cup {rate}]
            /\ gres' = [method |-> "filter_completion", exc |-> "none"]
            /\ UNCHANGED variants_table
    /\ UNCHANGED <<geno_file, notGeno>>

FilterMaf_ClearsNames(maf) ==
    /\ gn < MaxCalls
    /\ gn' = gn + 1
    /\ IF gdb.frozen
       THEN RaiseFrozen("filter_maf")
       ELSE /\ gdb' = SetNames(SetMaf(gdb, maf), {})
            /\ gcalls' = [gcalls EXCEPT !.maf = @ \cup {maf}]
            /\ gres' = [method |-> "filter_maf", exc |-> "none"]
            /\ UNCHANGED variants_table
    /\ UNCHANGED <<geno_file, notGeno>>

\* filter_maf(maf)
FilterMaf(maf) ==
    /\ gn < MaxCalls
    /\ gn' = gn + 1
    /\ IF gdb.frozen
       THEN RaiseFrozen("filter_maf")
       ELSE /\ gdb' = SetMaf(gdb, maf)
            /\ gcalls' = [gcalls EXCEPT !.maf = @ \cup {maf}]
            /\ gres' = [method |-> "filter_maf", exc |-> "none"]
            /\ UNCHANGED variants_table
    /\ UNCHANGED <<geno_file, notGeno>>

\* filter_name(names_list), with a list or a tuple of names
FilterName(names_list) ==
    /\ gn < MaxCalls
    /\ gn' = gn + 1
    /\ IF gdb.frozen
       THEN RaiseFrozen("filter_name")
       ELSE /\ gdb' = SetNames(gdb, names_list)
            /\ gcalls' = [gcalls EXCEPT !.name = @ \cup {names_list}]
            /\ gres' = [method |-> "filter_name", exc |-> "none"]
            /\ UNCHANGED variants_table
    /\ UNCHANGED <<geno_file, notGeno>>

\* The index of the first entry of samples_list that is not a sample of the
\* database, or Len + 1 when every entry is one.
FirstMissing(samples, samples_list) ==
    LET bad == {i \in DOMAIN samples_list :
                  \A k \in DOMAIN samples : samples[k] # samples_list[i]}
    IN IF bad = {} THEN Len(samples_list) + 1
       ELSE CHOOSE i \in bad : \A j \in bad : i <= j

\* The mask exclude_samples has built when its loop stops before entry `stop`.
MaskUpTo(samples, samples_list, stop) ==
    [k \in DOMAIN samples |->
        \A i \in 1..(stop - 1) : samples_list[i] # samples[k]]

\* MemoryImpute2Geno.exclude_samples(samples_list)
ExcludeSamples(samples_list) ==
    /\ gdb.cls = "MemoryImpute2Geno"
    /\ gn < MaxCalls
    /\ gn' = gn + 1
    /\ IF gdb.frozen
       THEN RaiseFrozen("exclude_samples")
       ELSE LET stop == FirstMissing(gdb.samples, samples_list)
                mask == MaskUpTo(gdb.samples, samples_list, stop)
            IN /\ IF stop <= Len(samples_list)
                  THEN /\ gdb' = [gdb EXCEPT !.has_mask = TRUE,
                                             !.samples_mask = mask]
                       /\ gres' = [method |-> "exclude_samples",
                                   exc |-> "ValueError"]
                  ELSE /\ gdb' = [gdb EXCEPT
                                     !.has_mask = TRUE,
                                     !.samples_mask = mask,
                                     !.samples = Masked(gdb.samples, mask)]
                       /\ gres' = [method |-> "exclude_samples",
                                   exc |-> "none"]
               /\ UNCHANGED <<variants_table, gcalls>>
    /\ UNCHANGED <<geno_file, notGeno>>

\* The assignments of experiment_init(experiment).
ExperimentInitBody ==
    /\ IF /\ gdb.cls = "MemoryImpute2Geno"
          /\ gdb.has_mask
          /\ Len(gdb.samples_mask) # NSamples
          /\ Kept(gdb) # {}
       THEN \* dosage[self.samples_mask] with a mask of another length
            /\ gdb' = [gdb EXCEPT !.has_mat = TRUE, !.mat = <<>>]
            /\ gres' = [method |-> "experiment_init", exc |-> "IndexError"]
            /\ UNCHANGED variants_table
       ELSE /\ variants_table' =
                  variants_table \cup {VariantRow(name) : name \in Kept(gdb)}
            /\ gdb' = IF gdb.cls = "MemoryImpute2Geno"
                      THEN [gdb EXCEPT
                              !.frozen = TRUE,
                              !.has_mat = TRUE,
                              !.mat = [name \in Kept(gdb) |->
                                         IF gdb.has_mask
                                         THEN Masked(geno_file[name],
                                                     gdb.samples_mask)
                                         ELSE geno_file[name]]]
                      ELSE [gdb EXCEPT !.frozen = TRUE]
            /\ gres' = [method |-> "experiment_init", exc |-> "none"]

\* experiment_init(experiment), called once on the database.
ExperimentInit ==
    /\ ~gdb.frozen
    /\ gres.method # "experiment_init"
    /\ ExperimentInitBody
    /\ UNCHANGED <<geno_file, gcalls, gn, notGeno>>

GNext ==
    \/ \E rate \in CompletionRates : FilterCompletion(rate)
    \/ \E maf \in MafRates : FilterMaf(maf)
    \/ \E names_list \in NameLists : FilterName(names_list)
    \/ \E samples_list \in ExcludeLists : ExcludeSamples(samples_list)
    \/ ExperimentInit

GenotypeSpec == GInit /\ [][GNext]_vars


\* The variant catalog: the names of the rows of the variants table.
Catalog == {row.name : row \in variants_table}

\* The variants a single call on a new database of the same class retains.
RetainedByMaf(maf) == Kept(SetMaf(NewDatabase(gdb.cls), maf))
RetainedByCompletion(rate) == Kept(SetCompletion(NewDatabase(gdb.cls), rate))
RetainedByName(names_list) == Kept(SetNames(NewDatabase(gdb.cls), names_list))

\* The intersection of what each successful filter call made before
\* experiment_init retains on its own.
RetainedByEveryCall ==
    {name \in Variants :
        /\ \A maf \in gcalls.maf : name \in RetainedByMaf(maf)
        /\ \A rate \in gcalls.completion : name \in RetainedByCompletion(rate)
        /\ \A names_list \in gcalls.name : name \in RetainedByName(names_list)}

FilterMethods == {"filter_name", "filter_maf", "filter_completion"}

\* C4: on a database experiment_init has frozen, every filter_name,
\* filter_maf, filter_completion and exclude_samples call raises
\* FrozenDatabaseError and leaves the database's configuration (thresholds,
\* names, sample mask) and the variant catalog as they were; on a database
\* not yet frozen the filter calls raise nothing, and exclude_samples never
\* raises FrozenDatabaseError and raises nothing for known samples.
C4_FrozenRejectsConfiguration ==
    [][gn' = gn + 1 =>
         IF gdb.frozen
         THEN /\ gres'.exc = "FrozenDatabaseError"
              /\ gdb' = gdb
              /\ variants_table' = variants_table
         ELSE /\ gres'.method \in FilterMethods => gres'.exc = "none"
              /\ gres'.exc # "FrozenDatabaseError"
              /\ (gres'.method = "exclude_samples" /\ gres'.exc = "none")
                    => gdb'.has_mask]_vars

\* A frozen MemoryImpute2Geno with a catalog has rejected exclude_samples.
C4_Witness ==
    /\ gdb.frozen
    /\ variants_table # {}
    /\ gres = [method |-> "exclude_samples", exc |-> "FrozenDatabaseError"]

\* C5 as stated: after experiment_init the catalog is the intersection of
\* what each filter call made before it retains on its own, whatever the
\* calls were, the same filter called with different arguments included.
C5_CatalogIsIntersectionOfAllCalls ==
    gdb.frozen => Catalog = RetainedByEveryCall

\* C5: when no filter was called with two different arguments, the catalog
\* after experiment_init is the intersection of what each filter call
\* retains on its own, so it does not depend on the order of the calls.
C5_CatalogIsIntersectionOfDistinctFilters ==
    (/\ gdb.frozen
     /\ Cardinality(gcalls.maf) <= 1
     /\ Cardinality(gcalls.completion) <= 1
     /\ Cardinality(gcalls.name) <= 1) => Catalog = RetainedByEveryCall

\* The three filters were each called once and the catalog holds some of
\* the variants, but not all.
C5_Witness ==
    /\ gdb.frozen
    /\ Cardinality(gcalls.maf) = 1
    /\ Cardinality(gcalls.completion) = 1
    /\ Cardinality(gcalls.name) = 1
    /\ Catalog # {}
    /\ Catalog # Variants
    /\ gcalls.name = {{"rs1"}} => Catalog = {"rs1"}

\* C6: after filter_maf(m) alone and experiment_init, every variant of the
\* catalog has mac / (2 * n_non_missing) >= m and every variant with a
\* non-missing call that is not in the catalog has mac / (2 * n_non_missing)
\* < m.
C6_MafFilterAgreesWithDerivedMaf ==
    (/\ gdb.frozen
     /\ Cardinality(gcalls.maf) = 1
     /\ gcalls.completion = {}
     /\ gcalls.name = {})
    => \A maf \in gcalls.maf :
          /\ \A row \in variants_table : ~MafLess(row, maf)
          /\ \A name \in Variants \ Catalog :
                VariantRow(name).n_non_missing > 0
                   => MafLess(VariantRow(name), maf)

\* C7: after filter_completion(r) and experiment_init, every variant of the
\* catalog has n_non_missing / (n_non_missing + n_missing) >= r.
C7_CatalogCompletionAtLeastRate ==
    (gdb.frozen /\ Cardinality(gcalls.completion) = 1)
    => \A rate \in gcalls.completion :
          \A row \in variants_table : ~CompletionLess(row, rate)


(***************************************************************************)
(* forward.phenotype.db: validate_sample_sequences and                     *)
(* PandasPhenotypeDatabase                                                 *)
(***************************************************************************)
\* The sample identifiers phenotype files and callers may name: the samples
\* of the genotype file and one sample more.
AllSamples == 1..UnknownSample

PhenotypeNames == {"y1", "y2"}

\* set(seq)
SetOf(seq) == {seq[i] : i \in DOMAIN seq}

\* The sequences that list samples of S, each at most once.
OrdersOf(S) ==
    UNION {{seq \in [1..n -> S] : \A i, j \in 1..n : seq[i] = seq[j] => i = j} :
              n \in 0..Cardinality(S)}

\* The value the phenotype file holds for a sample and a phenotype.
Cell(name, sample) == <<name, sample>>

\* AbstractPhenotypeDatabase.validate_sample_sequences: the exception it
\* raises, if any.
validate_sample_sequences_IgnoresAllowSubset(old_seq, new_seq, allow_subset) ==
    LET extra == SetOf(new_seq) \ SetOf(old_seq)
    IN IF extra # {} THEN "ValueError" ELSE "none"

validate_sample_sequences(old_seq, new_seq, allow_subset) ==
    LET missing == SetOf(old_seq) \ SetOf(new_seq)
        extra == SetOf(new_seq) \ SetOf(old_seq)
    IN IF (~allow_subset) /\ missing # {} THEN "ValueError"
       ELSE IF extra # {} THEN "ValueError"
       ELSE "none"

\* The row of a sample in an index that lists every sample once.
RowOf(index, sample) == CHOOSE i \in DOMAIN index : index[i] = sample

\* self.data.loc[sequence, :] for one column: the value of the row of every
\* sample of the sequence, in the order of the sequence.
Loc_KeepsRows(column, index, sequence) ==
    [i \in DOMAIN sequence |-> column[i]]

Loc(column, index, sequence) ==
    [i \in DOMAIN sequence |-> column[RowOf(index, sequence[i])]]

\* get_sample_order()
get_sample_order == data_index

\* get_phenotype_vector(variable) of a variable without transformation
get_phenotype_vector(name) == data[name]

\* PandasPhenotypeDatabase.__init__ on a file whose sample column has no
\* repeated sample (verify_integrity=True).
PDatabase(index) ==
    /\ data_index = index
    /\ data = [name \in PhenotypeNames |->
                 [i \in DOMAIN index |-> Cell(name, index[i])]]
    /\ order_is_set = FALSE
    /\ pres = [method |-> "none", exc |-> "none", sequence |-> <<>>,
               allow_subset |-> FALSE, before |-> <<>>]
    /\ pn = 0

PInit ==
    /\ \E index \in OrdersOf(AllSamples) : Len(index) >= 1 /\ PDatabase(index)
    /\ QIdle
    /\ GIdle
    /\ EIdle
    /\ XIdle

\* The assignments of set_sample_order(sequence, allow_subset).
SetSampleOrderBody(sequence, allow_subset) ==
    LET exc == validate_sample_sequences(get_sample_order, sequence,
                                         allow_subset)
    IN /\ pres' = [method |-> "set_sample_order", exc |-> exc,
                   sequence |-> sequence, allow_subset |-> allow_subset,
                   before |-> data_index]
       /\ IF exc # "none"
          THEN UNCHANGED <<data_index, data, order_is_set>>
          ELSE /\ data' = [name \in PhenotypeNames |->
                             Loc(data[name], data_index, sequence)]
               /\ data_index' = sequence
               /\ order_is_set' = TRUE

\* set_sample_order(sequence, allow_subset), with a sequence that names no
\* sample twice.
SetSampleOrder(sequence, allow_subset) ==
    /\ pn < MaxCalls
    /\ pn' = pn + 1
    /\ SetSampleOrderBody(sequence, allow_subset)
    /\ UNCHANGED notPheno

PNext ==
    \E sequence \in OrdersOf(AllSamples), allow_subset \in BOOLEAN :
        SetSampleOrder(sequence, allow_subset)

PhenotypeSpec == PInit /\ [][PNext]_vars

\* The sequence lists the same samples as the index, in any order.
IsPermutation(sequence, index) ==
    /\ Len(sequence) = Len(index)
    /\ SetOf(sequence) = SetOf(index)

\* C8: set_sample_order(sequence, allow_subset) raises when the sequence
\* names a sample the database does not have, whatever allow_subset is, and
\* when it leaves out a sample of the database and allow_subset is false;
\* when it leaves out a sample, names no unknown one and allow_subset is
\* true, it raises nothing and get_sample_order() is then the sequence; a
\* call that raises leaves the sample order, the data and _order_is_set as
\* they were.
C8_SetSampleOrderCases ==
    [][pn' = pn + 1 =>
         LET sequence == pres'.sequence
             allow_subset == pres'.allow_subset
             missing == SetOf(data_index) \ SetOf(sequence)
             extra == SetOf(sequence) \ SetOf(data_index)
         IN /\ extra # {} => pres'.exc = "ValueError"
            /\ (missing # {} /\ ~allow_subset) => pres'.exc = "ValueError"
            /\ (missing # {} /\ allow_subset /\ extra = {})
                  => pres'.exc = "none" /\ get_sample_order' = sequence
            /\ pres'.exc # "none"
                  => /\ get_sample_order' = get_sample_order
                     /\ data' = data
                     /\ order_is_set' = order_is_set]_vars

\* A call with allow_subset has left out a sample and put the two it kept
\* in an order they were not in.
C8_Witness ==
    /\ pres.method = "set_sample_order"
    /\ pres.exc = "none"
    /\ pres.allow_subset
    /\ SetOf(pres.before) \ SetOf(pres.sequence) # {}
    /\ Len(pres.sequence) = 2
    /\ RowOf(pres.before, pres.sequence[1]) > RowOf(pres.before, pres.sequence[2])
    /\ get_sample_order = pres.sequence

\* C9: set_sample_order with a permutation of the current sample order
\* raises nothing, makes get_sample_order() the permuted list and makes
\* every phenotype vector hold, at every position, the value the old vector
\* held for the sample now at that position; with the current order itself
\* the order and the vectors stay as they are.  In every state each value
\* of a phenotype vector is the one the file holds for the sample at its
\* position.
C9_PermutationReordersVectors ==
    /\ [](\A name \in DOMAIN data : \A i \in DOMAIN data_index :
             get_phenotype_vector(name)[i] = Cell(name, data_index[i]))
    /\ [][(pn' = pn + 1 /\ IsPermutation(pres'.sequence, data_index)) =>
            /\ pres'.exc = "none"
            /\ get_sample_order' = pres'.sequence
            /\ \A name \in PhenotypeNames :
                  /\ Len(get_phenotype_vector(name)') = Len(pres'.sequence)
                  /\ \A i \in DOMAIN pres'.sequence :
                        get_phenotype_vector(name)'[i] =
                           get_phenotype_vector(name)[
                               RowOf(data_index, pres'.sequence[i])]
            /\ pres'.sequence = data_index
                  => data' = data /\ data_index' = data_index]_vars

\* A call has reordered three samples with a permutation that moves each.
C9_Witness ==
    /\ pres.method = "set_sample_order"
    /\ pres.exc = "none"
    /\ Len(pres.before) = 3
    /\ IsPermutation(pres.sequence, pres.before)
    /\ \A i \in 1..3 : pres.sequence[i] # pres.before[i]
    /\ get_sample_order = pres.sequence
    /\ \A i \in 1..3 : data["y1"][i] = Cell("y1", pres.sequence[i])

(***************************************************************************)
(* forward.experiment.Experiment: construction, and the jobs of a task     *)
(***************************************************************************)
\* The genotype files of the experiments: calls are 1 or missing.
ExperimentGenoFiles == [Variants -> [1..NSamples -> {1, NaN}]]

\* genotypes.get_sample_order()
genotypes_get_sample_order == gdb.samples

\* genotypes.get_genotypes(variant_name) after experiment_init
get_genotypes(variant_name) ==
    IF gdb.cls = "MemoryImpute2Geno" THEN gdb.mat[variant_name]
    ELSE geno_file[variant_name]

\* The files a run directory is found with.
DirectoryContents == {{}, {"forward_database.db", "experiment_info.pkl"}}

\* The containers an Experiment is built with: a genotype database that may
\* still be configured and a phenotype database, and a run directory that
\* does not exist yet or is there already, empty or with the files of a run.
EInit ==
    /\ geno_file \in ExperimentGenoFiles
    /\ gdb \in {NewMemoryImpute2Geno, NewPlinkGenotypeDatabase}
    /\ variants_table = {}
    /\ gres = [method |-> "none", exc |-> "none"]
    /\ gcalls = [maf |-> {}, completion |-> {}, name |-> {}]
    /\ gn = 0
    /\ \E index \in OrdersOf(AllSamples) : Len(index) >= 1 /\ PDatabase(index)
    /\ estate = "new"
    /\ ejob = [variant |-> "none", x |-> <<>>, y |-> <<>>]
    /\ edir \in {[exists |-> FALSE, files |-> {}]}
                \cup {[exists |-> TRUE, files |-> c] : c \in DirectoryContents}
    /\ eexc = "none"
    /\ QIdle
    /\ XIdle

\* os.makedirs(name) raises OSError: the directory is there already.
RaiseDirectoryExists ==
    /\ estate' = "failed"
    /\ eexc' = "OSError"
    /\ UNCHANGED <<edir, pvars, gdb, gres, variants_table>>

\* os.makedirs(name) of a new directory; the database file is created in
\* it when experiment_init connects to the engine.
MakeDirs(connected) ==
    edir' = [exists |-> TRUE,
             files |-> IF connected THEN {"forward_database.db"} ELSE {}]

Experiment_SkipsSampleOrder ==
    /\ estate = "new"
    /\ IF edir.exists
       THEN RaiseDirectoryExists
       ELSE /\ ExperimentInitBody
            /\ MakeDirs(TRUE)
            /\ estate' = IF gres'.exc = "none" THEN "constructed"
                         ELSE "failed"
            /\ eexc' = gres'.exc
            /\ UNCHANGED pvars
    /\ UNCHANGED <<geno_file, gcalls, gn, ejob, qvars, xvars>>

Experiment_ExistingDirectoryAccepted ==
    /\ estate = "new"
    /\ pn' = pn + 1
    /\ SetSampleOrderBody(genotypes_get_sample_order, TRUE)
    /\ IF pres'.exc # "none"
       THEN /\ estate' = "failed"
            /\ eexc' = pres'.exc
            /\ MakeDirs(FALSE)
            /\ UNCHANGED <<gdb, gres, variants_table>>
       ELSE /\ ExperimentInitBody
            /\ MakeDirs(TRUE)
            /\ estate' = IF gres'.exc = "none" THEN "constructed"
                         ELSE "failed"
            /\ eexc' = gres'.exc
    /\ UNCHANGED <<geno_file, gcalls, gn, ejob, qvars, xvars>>

\* Experiment.__init__: the run directory is created, which raises OSError
\* when it exists; the sample order of the genotypes is given to the
\* phenotypes, then the genotype database is initialized; an exception of
\* either call ends the construction.
Experiment ==
    /\ estate = "new"
    /\ IF edir.exists
       THEN RaiseDirectoryExists
       ELSE /\ pn' = pn + 1
            /\ SetSampleOrderBody(genotypes_get_sample_order, TRUE)
            /\ IF pres'.exc # "none"
               THEN /\ estate' = "failed"
                    /\ eexc' = pres'.exc
                    /\ MakeDirs(FALSE)
                    /\ UNCHANGED <<gdb, gres, variants_table>>
               ELSE /\ ExperimentInitBody
                    /\ MakeDirs(TRUE)
                    /\ estate' = IF gres'.exc = "none" THEN "constructed"
                                 ELSE "failed"
                    /\ eexc' = gres'.exc
    /\ UNCHANGED <<geno_file, gcalls, gn, ejob, qvars, xvars>>

\* run_task of a test: the vectors of the job pushed for a variant of the
\* catalog and a phenotype.
BuildJob(variant, phenotype) ==
    /\ estate = "constructed"
    /\ variant \in Catalog
    /\ ejob' = [variant |-> variant,
                x |-> get_genotypes(variant),
                y |-> get_phenotype_vector(phenotype)]
    /\ UNCHANGED <<estate, edir, eexc, gvars, pvars, qvars, xvars>>

\* exclude_samples called on the genotype database of the experiment,
\* before or after the construction.
ExperimentExcludeSamples(samples_list) ==
    /\ estate \in {"new", "constructed"}
    /\ ExcludeSamples(samples_list)

ENext ==
    \/ \E samples_list \in ExcludeLists : ExperimentExcludeSamples(samples_list)
    \/ Experiment
    \/ \E variant \in Variants, phenotype \in PhenotypeNames :
          BuildJob(variant, phenotype)

ExperimentSpec == EInit /\ [][ENext]_vars

\* C10: once the Experiment is constructed, and so whenever a task builds a
\* job, the sample order of the phenotypes is the sample order of the
\* genotypes, position by position, and the phenotype vector of a job has
\* one value for each of these samples; a construction with a genotype
\* sample the phenotypes do not have fails with the ValueError of
\* set_sample_order and leaves the genotype database and the phenotype
\* data as they were.
C10_SampleOrdersIdentical ==
    /\ [](estate = "constructed" =>
            /\ get_sample_order = genotypes_get_sample_order
            /\ ejob.variant # "none" =>
                  Len(ejob.y) = Len(genotypes_get_sample_order))
    /\ [][(/\ estate = "new"
           /\ estate' # "new"
           /\ ~edir.exists
           /\ SetOf(genotypes_get_sample_order) \ SetOf(get_sample_order) # {})
          => /\ estate' = "failed"
             /\ pres'.exc = "ValueError"
             /\ gdb' = gdb
             /\ data' = data
             /\ get_sample_order' = get_sample_order]_vars

\* A job was built in an experiment whose phenotype file had a sample the
\* genotype file has not and listed the genotype samples in another order.
C10_Witness ==
    /\ estate = "constructed"
    /\ ejob.variant # "none"
    /\ UnknownSample \in SetOf(pres.before)
    /\ Len(genotypes_get_sample_order) = 2
    /\ RowOf(pres.before, genotypes_get_sample_order[1])
          > RowOf(pres.before, genotypes_get_sample_order[2])
    /\ get_sample_order = genotypes_get_sample_order

\* C20: the construction of an Experiment whose run directory exists raises
\* OSError before any other step: the directory and its files, the
\* phenotype database and the genotype database are as they were.
C20_ExistingDirectoryRejected ==
    [][(estate = "new" /\ estate' # "new" /\ edir.exists)
       => /\ estate' = "failed"
          /\ eexc' = "OSError"
          /\ edir' = edir
          /\ UNCHANGED <<gvars, pvars>>]_vars

\* A construction was refused in a directory that held the files of a run,
\* and the files are still there.
C20_Witness ==
    /\ estate = "failed"
    /\ eexc = "OSError"
    /\ edir.exists
    /\ "experiment_info.pkl" \in edir.files
    /\ ~order_is_set
    /\ ~gdb.frozen

(***************************************************************************)
(* forward.phenotype.db.PandasPhenotypeDatabase: exclude_correlated and    *)
(* set_experiment_variables                                                *)
(***************************************************************************)
\* The names of the variables of the experiment, in the order of the list.
VariableNames == <<"A", "B", "C">>

\* A discrete outcome, a discrete covariate and a continuous outcome.
Outcome == [variable_type |-> "discrete", is_covariate |-> FALSE]
Covariate == [variable_type |-> "discrete", is_covariate |-> TRUE]
Continuous == [variable_type |-> "continuous", is_covariate |-> FALSE]

ExclusionThresholds == {<<1, 2>>, <<1, 1>>}

RECURSIVE SumOver(_, _, _)
\* The sum of term[k] over the positions k of a set.
SumOver(term, positions, acc) ==
    IF positions = {} THEN acc
    ELSE LET k == CHOOSE k \in positions : TRUE
         IN SumOver(term, positions \ {k}, acc + term[k])

\* DataFrame.corr() of two columns: the Pearson correlation over the rows
\* where neither is missing, as the fraction num / sqrt(den); den = 0 is
\* the NaN correlation.
Corr(a, b) ==
    LET rows == {k \in DOMAIN a : ~IsNaN(a[k]) /\ ~IsNaN(b[k])}
        n == Cardinality(rows)
        Sa == SumOver(a, rows, 0)
        Sb == SumOver(b, rows, 0)
        Sab == SumOver([k \in DOMAIN a |-> a[k] * b[k]], rows, 0)
        Saa == SumOver([k \in DOMAIN a |-> a[k] * a[k]], rows, 0)
        Sbb == SumOver([k \in DOMAIN a |-> b[k] * b[k]], rows, 0)
    IN [num |-> n * Sab - Sa * Sb,
        den |-> (n * Saa - Sa * Sa) * (n * Sbb - Sb * Sb)]

\* abs(corr) >= threshold; a comparison with NaN is false.
AbsAtLeast(corr, threshold) ==
    /\ corr.den > 0
    /\ corr.num * corr.num * threshold[2] * threshold[2]
          >= threshold[1] * threshold[1] * corr.den

\* The lists of variables set_experiment_variables is called with: the
\* variables of the experiment in any order, each given by its position in
\* VariableNames.
VariableLists ==
    {vs \in [DOMAIN VariableNames -> DOMAIN VariableNames] :
        \A i, j \in DOMAIN vs : vs[i] = vs[j] => i = j}

\* names = [v.name for v in variables]
ListedNames(variables) == [i \in DOMAIN variables |-> VariableNames[variables[i]]]

\* get_correlation_matrix(names)
get_correlation_matrix(frame, names) ==
    [i \in DOMAIN names |->
        [j \in DOMAIN names |-> Corr(frame[names[i]], frame[names[j]])]]

\* (y == 0) & (related_phenotype_y == 1)
ControlCaseMask(y, related_phenotype_y) ==
    {k \in DOMAIN y : y[k] = 0 /\ related_phenotype_y[k] = 1}

IsDiscreteOutcome_AnyDiscrete(kind) == kind.variable_type = "discrete"

\* A variable exclusions are computed for, and against.
IsDiscreteOutcome(kind) ==
    kind.variable_type = "discrete" /\ ~kind.is_covariate

RECURSIVE RelatedLoop(_, _, _, _, _, _)
\* The inner loop of set_experiment_variables for the variable at position
\* i of the list, from column j of the correlation matrix on: st holds
\* self.data and the exclusion mappings so far, y is what
\* get_phenotype_vector returned for the variable before the loop.  When
\* .values shares the memory of self.data, y shows the values the loop has
\* already set to NaN.
RelatedLoop(variables, i, j, mat, st, y) ==
    IF j > Len(variables) THEN st
    ELSE IF /\ j # i
            /\ IsDiscreteOutcome(ckinds[variables[j]])
            /\ AbsAtLeast(mat[i][j], cdb.threshold)
         THEN LET names == ListedNames(variables)
                  var == names[i]
                  seen == IF cview THEN st.data[var] ELSE y
                  mask == ControlCaseMask(seen, st.data[names[j]])
                  nulled == [k \in DOMAIN seen |->
                               IF k \in mask THEN NaN ELSE st.data[var][k]]
              IN RelatedLoop(variables, i, j + 1, mat,
                   [data |-> [st.data EXCEPT ![var] = nulled],
                    mappings |-> st.mappings \cup
                       {[phen1 |-> var, phen2 |-> names[j],
                         correlation |-> mat[i][j],
                         n |-> Cardinality(mask)]}],
                   y)
         ELSE RelatedLoop(variables, i, j + 1, mat, st, y)

RECURSIVE VariablesLoop_RecomputesMatrix(_, _, _, _)
VariablesLoop_RecomputesMatrix(variables, i, mat, st) ==
    IF i > Len(variables) THEN st
    ELSE IF IsDiscreteOutcome(ckinds[variables[i]])
         THEN VariablesLoop_RecomputesMatrix(variables, i + 1, mat,
                 RelatedLoop(variables, i, 1,
                    get_correlation_matrix(st.data, ListedNames(variables)), st,
                    st.data[ListedNames(variables)[i]]))
         ELSE VariablesLoop_RecomputesMatrix(variables, i + 1, mat, st)

RECURSIVE VariablesLoop(_, _, _, _)
\* The outer loop of set_experiment_variables, from the variable at
\* position i of the list on.
VariablesLoop(variables, i, mat, st) ==
    IF i > Len(variables) THEN st
    ELSE IF IsDiscreteOutcome(ckinds[variables[i]])
         THEN VariablesLoop(variables, i + 1, mat,
                 RelatedLoop(variables, i, 1, mat, st,
                             st.data[ListedNames(variables)[i]]))
         ELSE VariablesLoop(variables, i + 1, mat, st)

\* self.data after the exclusions were computed for a list of variables.
ExclusionData(variables, frame, mappings) ==
    VariablesLoop(variables, 1,
                  get_correlation_matrix(frame, ListedNames(variables)),
                  [data |-> frame, mappings |-> mappings])

\* A database of 0/1 phenotypes and the variables of an experiment.
CInit ==
    /\ cdata \in [{VariableNames[i] : i \in DOMAIN VariableNames} ->
                    [1..NSamples -> {0, 1}]]
    /\ ckinds \in {kinds \in [DOMAIN VariableNames ->
                                {Outcome, Covariate, Continuous}] :
                      kinds[1] = Outcome}
    /\ cdb = [requested |-> FALSE, threshold |-> <<0, 1>>, mappings |-> {},
              initialized |-> FALSE]
    /\ cres = [method |-> "none", exc |-> "none", before |-> <<>>,
               fresh |-> FALSE, computed |-> 0]
    /\ cn = 0
    /\ cview \in BOOLEAN
    /\ QIdle
    /\ GIdle
    /\ PIdle
    /\ EIdle
    /\ RIdle
    /\ DIdle
    /\ WIdle
    /\ YIdle

\* exclude_correlated(threshold)
ExcludeCorrelated(threshold) ==
    /\ cn < MaxCalls
    /\ cn' = cn + 1
    /\ cdb' = [requested |-> TRUE, threshold |-> threshold, mappings |-> {},
               initialized |-> FALSE]
    /\ cres' = [method |-> "exclude_correlated", exc |-> "none",
                before |-> cdata, fresh |-> FALSE, computed |-> 0]
    /\ UNCHANGED <<cdata, ckinds, cview, notExclusion>>

\* set_experiment_variables(variables)
SetExperimentVariables(variables) ==
    /\ cn < MaxCalls
    /\ cn' = cn + 1
    /\ IF ~cdb.requested
       THEN \* no attribute _exclusions_were_initialized
            /\ cres' = [method |-> "set_experiment_variables",
                        exc |-> "none", before |-> cdata, fresh |-> FALSE,
                        computed |-> cres.computed]
            /\ UNCHANGED <<cdata, cdb>>
       ELSE IF cdb.initialized
       THEN /\ cres' = [method |-> "set_experiment_variables",
                        exc |-> "Exception", before |-> cdata]
            /\ UNCHANGED <<cdata, cdb>>
       ELSE \E st \in {ExclusionData(variables, cdata, cdb.mappings)} :
               /\ cdata' = st.data
               /\ cdb' = [cdb EXCEPT !.mappings = st.mappings]
               /\ cres' = [method |-> "set_experiment_variables",
                           exc |-> "none", before |-> cdata,
                           fresh |-> cdb.mappings = {},
                           computed |-> cres.computed + 1]
    /\ UNCHANGED <<ckinds, cview, notExclusion>>

CNext ==
    \/ \E threshold \in ExclusionThresholds : ExcludeCorrelated(threshold)
    \/ \E variables \in VariableLists : SetExperimentVariables(variables)

ExclusionSpec == CInit /\ [][CNext]_vars

\* The ordered pairs (A, B) the exclusions are computed for, on the data
\* the call started with: distinct discrete outcomes whose correlation is
\* at least the threshold.
RelatedPairs ==
    {pair \in (DOMAIN VariableNames) \X (DOMAIN VariableNames) :
        /\ pair[1] # pair[2]
        /\ IsDiscreteOutcome(ckinds[pair[1]])
        /\ IsDiscreteOutcome(ckinds[pair[2]])
        /\ AbsAtLeast(Corr(cres.before[VariableNames[pair[1]]],
                           cres.before[VariableNames[pair[2]]]),
                      cdb.threshold)}

\* The samples that were a control for A and a case for B when the call
\* started.
ControlsOfCases(pair) ==
    ControlCaseMask(cres.before[VariableNames[pair[1]]],
                    cres.before[VariableNames[pair[2]]])

\* The first computation of the exclusions of a request has just ended.
ExclusionsComputed ==
    /\ cres.method = "set_experiment_variables"
    /\ cres.exc = "none"
    /\ cdb.requested
    /\ cres.fresh

\* C11: after set_experiment_variables has computed the exclusions, for
\* every related pair (A, B) every sample that was a control for A and a
\* case for B has NaN for A, and there is a record (A, B, corr, n) and each
\* such record has n equal to the number of these samples.
C11_ControlsOfCasesNulledAndCounted ==
    ExclusionsComputed =>
       \A pair \in RelatedPairs :
          LET A == VariableNames[pair[1]]
              B == VariableNames[pair[2]]
              recs == {rec \in cdb.mappings : rec.phen1 = A /\ rec.phen2 = B}
          IN /\ \A k \in ControlsOfCases(pair) : IsNaN(cdata[A][k])
             /\ recs # {}
             /\ \A rec \in recs : rec.n = Cardinality(ControlsOfCases(pair))

\* C12: a set_experiment_variables call made after the exclusions of the
\* request were computed raises and leaves the data and the exclusion
\* records as they were.
C12_SecondComputationFails ==
    [][(/\ cn' = cn + 1
        /\ cres'.method = "set_experiment_variables"
        /\ cdb.requested
        /\ cres.computed >= 1)
       => /\ cres'.exc = "Exception"
          /\ cdata' = cdata
          /\ cdb'.mappings = cdb.mappings]_vars

(***************************************************************************)
(* forward.tasks and forward.experiment.Experiment.run_tasks               *)
(***************************************************************************)
\* experiment.variables: a discrete outcome, a continuous outcome and a
\* discrete covariate.
ExperimentVariables ==
    <<[name |-> "y1", is_covariate |-> FALSE, cls |-> "DiscreteVariable"],
      [name |-> "y2", is_covariate |-> FALSE, cls |-> "ContinuousVariable"],
      [name |-> "c1", is_covariate |-> TRUE, cls |-> "DiscreteVariable"]>>

\* The entity_name and phenotype of a row built from a result without them.
Null == "NULL"

\* The outcomes or covariates attribute of a task: the string "all", a list
\* of names, or the list of Variable objects run_task has put there.  The
\* items are the names, or the names of the Variable objects.
All == [kind |-> "all", items |-> <<>>]
Names(items) == [kind |-> "names", items |-> items]
VariableObjects(items) == [kind |-> "variables", items |-> items]

\* The names of the variables of the experiment found in a sequence of
\* variables, in their order.
NamesOf(kept) == [k \in DOMAIN kept |-> kept[k].name]

\* i.name in self.outcomes: a name is equal to a name, and to no Variable
\* object.
NameIn(name, selection) ==
    /\ selection.kind = "names"
    /\ \E k \in DOMAIN selection.items : selection.items[k] = name

\* AbstractTask.run_task, the selection of the outcomes.
ResolveOutcomes(selection) ==
    IF selection.kind = "all"
    THEN LET NotCovariate(v) == ~v.is_covariate
         IN VariableObjects(NamesOf(SelectSeq(ExperimentVariables,
                                              NotCovariate)))
    ELSE LET Listed(v) == NameIn(v.name, selection)
         IN VariableObjects(NamesOf(SelectSeq(ExperimentVariables, Listed)))

\* AbstractTask.run_task, the selection of the covariates.
ResolveCovariates(selection) ==
    IF selection.kind = "all"
    THEN LET IsCovariate(v) == v.is_covariate
         IN VariableObjects(NamesOf(SelectSeq(ExperimentVariables,
                                              IsCovariate)))
    ELSE LET Listed(v) == NameIn(v.name, selection)
         IN VariableObjects(NamesOf(SelectSeq(ExperimentVariables, Listed)))

\* AbstractTask.run_task: the task after the selection, and the exception
\* raised, if any.
AbstractRunTask(task) ==
    LET outcomes == ResolveOutcomes(task.outcomes)
        covariates == ResolveCovariates(task.covariates)
    IN IF task.variants # "all"
       THEN [task |-> [task EXCEPT !.outcomes = outcomes,
                                   !.covariates = covariates],
             exc |-> "NotImplementedError"]
       ELSE [task |-> [task EXCEPT
                         !.outcomes = outcomes,
                         !.covariates = covariates,
                         !.info = [outcomes |-> outcomes.items,
                                   covariates |-> covariates.items]],
             exc |-> "none"]

\* The class of the Variable of a name.
ClassOf(name) ==
    LET k == CHOOSE k \in DOMAIN ExperimentVariables :
                 ExperimentVariables[k].name = name
    IN ExperimentVariables[k].cls

\* filter_variables of LogisticTest and LinearTest
FilterVariables_KeepsAll(task) == task

FilterVariables(task) ==
    LET wanted == IF task.cls = "LogisticTest" THEN "DiscreteVariable"
                  ELSE "ContinuousVariable"
        Wanted(name) == ClassOf(name) = wanted
    IN IF task.cls = "SKATTest" THEN task
       ELSE [task EXCEPT !.outcomes =
                VariableObjects(SelectSeq(task.outcomes.items, Wanted))]

\* The entities a task tests: the variants of the catalog, or the SNP sets.
Entities(task) ==
    IF task.cls = "SKATTest" THEN <<"set1">> ELSE <<"rs1", "rs2">>

\* The (phenotype, entity) pairs of the tests of a task, in the order of
\* its two loops, each with the covariates of its design matrix.
TestsOf(task) ==
    LET n == Len(Entities(task))
    IN [k \in 1..(Len(task.outcomes.items) * n) |->
          [phenotype |-> task.outcomes.items[((k - 1) \div n) + 1],
           entity_name |-> Entities(task)[((k - 1) % n) + 1],
           covariates |-> task.covariates.items]]

\* task_id = "task{}_{}".format(i, task.__class__.__name__)
TaskId(i) == <<i, rtasks[i].cls>>

\* What a task adds its rows with: prep_task of LogisticTest binds
\* experiment.add_result, prep_task of LinearTest a function that calls
\* experiment.session.add itself, and SKATTest calls experiment.add_result.
AddResultPath(cls) ==
    IF cls = "LinearTest" THEN "session.add" ELSE "Experiment.add_result"

\* The row of a test: what _work returned when the fit raised has no
\* entity_name and no phenotype.  The row is kept with the test it is the
\* result of and with the call that added it to the session.
ResultRow(task_name, test, failed) ==
    [task_name |-> task_name,
     entity_name |-> IF failed THEN Null ELSE test.entity_name,
     phenotype |-> IF failed THEN Null ELSE test.phenotype,
     test |-> test,
     via |-> AddResultPath(task_name[2])]

\* The tasks an Experiment may be given.
TaskConfigs ==
    {[cls |-> cls, outcomes |-> sel[1], covariates |-> sel[2],
      variants |-> variants,
      info |-> [outcomes |-> <<>>, covariates |-> <<>>]] :
        cls \in {"LogisticTest", "LinearTest", "SKATTest"},
        sel \in {<<All, All>>, <<Names(<<"y1", "y2">>), Names(<<"c1">>)>>},
        variants \in {"all", "subset"}}

\* A constructed Experiment with its tasks, before run_tasks.
RInit ==
    /\ rtasks \in UNION {[1..n -> TaskConfigs] : n \in 0..MaxTasks}
    /\ rresults = <<>>
    /\ rfs = [work_dirs |-> {}, task_info |-> {}, experiment_info |-> 0,
            committed |-> 0, pickled |-> {}]
    /\ rexcl \in {[requested |-> requested, table |-> FALSE] :
                     requested \in BOOLEAN}
    /\ rpc = [at |-> "idle", i |-> 0]
    /\ rres = [method |-> "none", exc |-> "none", task |-> 0,
               before |-> <<>>]
    /\ rcalls = 0
    /\ QIdle
    /\ GIdle
    /\ PIdle
    /\ EIdle
    /\ CIdle
    /\ DIdle
    /\ WIdle
    /\ YIdle

\* run_tasks(): the call starts.
RunTasksBegin ==
    /\ rpc.at = "idle"
    /\ rcalls < MaxCalls
    /\ rcalls' = rcalls + 1
    /\ rpc' = [at |-> "loop", i |-> 1]
    /\ rres' = [method |-> "run_tasks", exc |-> "running", task |-> 0,
                before |-> rtasks]
    /\ UNCHANGED <<rtasks, rresults, rfs, rexcl, notRun>>

\* run_tasks() raises: the call ends.
RunTasksRaise(exc, i) ==
    /\ rpc' = [at |-> "idle", i |-> 0]
    /\ rres' = [rres EXCEPT !.exc = exc, !.task = i]

\* One round of the loop of run_tasks: the work directory, run_task of a
\* test, done.  Every fit of a regression may raise in _work.
RunTaskStep ==
    /\ rpc.at = "loop"
    /\ rpc.i <= Len(rtasks)
    /\ LET i == rpc.i
           scoped == AbstractRunTask(rtasks[i])
           task == FilterVariables(scoped.task)
           tests == TestsOf(task)
       IN IF i \in rfs.work_dirs
          THEN \* os.makedirs(work_dir) of a directory that exists
               /\ RunTasksRaise("OSError", i)
               /\ UNCHANGED <<rtasks, rresults, rfs>>
          ELSE IF scoped.exc # "none"
          THEN /\ RunTasksRaise(scoped.exc, i)
               /\ rtasks' = [rtasks EXCEPT ![i] = scoped.task]
               /\ rfs' = [rfs EXCEPT !.work_dirs = @ \cup {i}]
               /\ UNCHANGED rresults
          ELSE \E failed \in SUBSET (DOMAIN tests) :
               /\ task.cls = "SKATTest" => failed = {}
               /\ rtasks' = [rtasks EXCEPT ![i] = task]
               /\ rresults' = rresults \o
                     [k \in DOMAIN tests |->
                         ResultRow(TaskId(i), tests[k], k \in failed)]
               /\ rfs' = [rfs EXCEPT
                            !.work_dirs = @ \cup {i},
                            !.task_info = @ \cup {i},
                            !.pickled = @ \cup {[task |-> i,
                                                 info |-> task.info]}]
               /\ rpc' = [rpc EXCEPT !.i = i + 1]
               /\ UNCHANGED rres
    /\ UNCHANGED <<rexcl, rcalls, notRun>>

\* run_tasks() after the loop: commit, _write_exclusions, the walltime and
\* experiment_info.pkl.
RunTasksEnd ==
    /\ rpc.at = "loop"
    /\ rpc.i > Len(rtasks)
    /\ IF rexcl.requested /\ rexcl.table
       THEN \* __table__.create of a table that exists
            /\ RunTasksRaise("OperationalError", 0)
            /\ rfs' = [rfs EXCEPT !.committed = Len(rresults)]
            /\ UNCHANGED rexcl
       ELSE /\ rexcl' = [rexcl EXCEPT !.table = rexcl.requested]
            /\ rfs' = [rfs EXCEPT !.committed = Len(rresults),
                                  !.experiment_info = @ + 1]
            /\ rpc' = [at |-> "idle", i |-> 0]
            /\ rres' = [rres EXCEPT !.exc = "none"]
    /\ UNCHANGED <<rtasks, rresults, rcalls, notRun>>

\* AbstractTask.run_task(experiment, task_name, work_dir) called on a task
\* outside run_tasks.
RunTaskScope(i) ==
    /\ rpc.at = "idle"
    /\ rcalls < MaxCalls
    /\ rcalls' = rcalls + 1
    /\ i \in DOMAIN rtasks
    /\ LET scoped == AbstractRunTask(rtasks[i])
       IN /\ rtasks' = [rtasks EXCEPT ![i] = scoped.task]
          /\ rres' = [method |-> "run_task", exc |-> scoped.exc, task |-> i,
                      before |-> rtasks]
    /\ UNCHANGED <<rresults, rfs, rexcl, rpc, notRun>>

RNext ==
    \/ RunTasksBegin
    \/ RunTaskStep
    \/ RunTasksEnd
    \/ \E i \in 1..MaxTasks : RunTaskScope(i)

RunSpec == RInit /\ [][RNext]_vars

\* The columns of a row that name the test.
Triple(row) == <<row.task_name, row.entity_name, row.phenotype>>

\* The rows of the results table that were committed.
PersistedResults == SubSeq(rresults, 1, rfs.committed)

\* C13: no two committed rows of the results table have the same
\* task_name, entity_name and phenotype.
C13_ResultTriplesUnique ==
    \A k, l \in DOMAIN PersistedResults :
        Triple(PersistedResults[k]) = Triple(PersistedResults[l]) => k = l

\* C14: experiment_info.pkl exists only when every task has its work
\* directory and its task_info.pkl, it does not exist after a run_tasks
\* call that a task ended with an exception, and it is never written a
\* second time.
C14_MetadataWrittenOnce ==
    /\ rfs.experiment_info > 0 =>
          \A i \in DOMAIN rtasks : i \in rfs.task_info
    /\ (rres.method = "run_tasks" /\ rres.exc = "NotImplementedError") =>
          rfs.experiment_info = 0
    /\ rfs.experiment_info <= 1

\* C15: AbstractTask.run_task on a task whose outcomes and covariates are
\* already lists of Variable objects leaves both lists as they are.
C15_ScopeResolutionIdempotent ==
    [][(/\ rcalls' = rcalls + 1
        /\ rres'.method = "run_task"
        /\ rtasks[rres'.task].outcomes.kind = "variables"
        /\ rtasks[rres'.task].covariates.kind = "variables")
       => /\ rtasks'[rres'.task].outcomes = rtasks[rres'.task].outcomes
          /\ rtasks'[rres'.task].covariates = rtasks[rres'.task].covariates]_vars

(***************************************************************************)
(* forward.tasks.LogisticTest.run_task: the design matrix of a job          *)
(***************************************************************************)
\* The samples of the vectors of a job.
JobSamples == 1..(NSamples + 1)

\* missing_covar: np.isnan(covar_matrix).any(axis=1), and no row when the
\* task has no covariate and the matrix is the intercept alone.
MissingCovar(covars) ==
    {k \in JobSamples : \E c \in DOMAIN covars : IsNaN(covars[c][k])}

\* missing_genotypes and missing_outcome: np.isnan of a vector
MissingIn(vect) == {k \in DOMAIN vect : IsNaN(vect[k])}

\* missing = (missing_covar | missing_genotypes | missing_outcome)
MissingRows_CovarOutcome(x, y, covars) ==
    MissingCovar(covars) \cup MissingIn(y)

MissingRows(x, y, covars) ==
    MissingCovar(covars) \cup MissingIn(x) \cup MissingIn(y)

\* The row of a sample in np.hstack((x, covar_matrix)): the genotype, the
\* intercept and the covariates.
DesignRow(x, covars, k) ==
    <<x[k], 1>> \o [c \in DOMAIN covars |-> covars[c][k]]

\* a[~missing]
NotMissing(a, missing) == Masked(a, [k \in DOMAIN a |-> k \notin missing])

\* The vectors a task has read for a variant, an outcome and its covariates.
DInit ==
    /\ dgeno \in [JobSamples -> GenoValues]
    /\ dout \in [JobSamples -> {0, 1, NaN}]
    /\ dcovars \in UNION {[1..n -> [JobSamples -> {1, NaN}]] : n \in 0..1}
    /\ djob = [pushed |-> FALSE, x |-> <<>>, y |-> <<>>]
    /\ QIdle
    /\ GIdle
    /\ PIdle
    /\ EIdle
    /\ CIdle
    /\ RIdle
    /\ WIdle
    /\ YIdle

\* The body of the loop on the variants of run_task: the job tuple
\* (variant, phenotype, x[~missing, :], y[~missing], 0) is pushed.
PushJob ==
    /\ ~djob.pushed
    /\ LET missing == MissingRows(dgeno, dout, dcovars)
           design == [k \in JobSamples |-> DesignRow(dgeno, dcovars, k)]
       IN djob' = [pushed |-> TRUE,
                   x |-> NotMissing(design, missing),
                   y |-> NotMissing(dout, missing)]
    /\ UNCHANGED <<dgeno, dout, dcovars, notDesign>>

DNext == PushJob

DesignSpec == DInit /\ [][DNext]_vars

\* The samples with a genotype, an outcome and every covariate.
CompleteSamples ==
    {k \in JobSamples :
        /\ ~IsNaN(dgeno[k])
        /\ ~IsNaN(dout[k])
        /\ \A c \in DOMAIN dcovars : ~IsNaN(dcovars[c][k])}

\* The j-th complete sample.
CompleteSample(j) ==
    CHOOSE k \in CompleteSamples :
        Cardinality({l \in CompleteSamples : l <= k}) = j

\* The missing sets of the genotype, the outcome and the covariates have
\* no sample in common.
DisjointMissing ==
    /\ MissingIn(dgeno) \cap MissingIn(dout) = {}
    /\ MissingIn(dgeno) \cap MissingCovar(dcovars) = {}
    /\ MissingIn(dout) \cap MissingCovar(dcovars) = {}

\* C16: the design matrix and the outcome vector of a pushed job have one
\* row for every sample that has a genotype, an outcome and every
\* covariate, in the order of the samples, and no other row: x and y have
\* the same number of rows, and when the three missing sets are disjoint
\* that number is n_samples - (g + p + c).
C16_JobHasCompleteCases ==
    djob.pushed =>
       /\ Len(djob.x) = Cardinality(CompleteSamples)
       /\ Len(djob.y) = Len(djob.x)
       /\ \A j \in DOMAIN djob.y :
             /\ djob.y[j] = dout[CompleteSample(j)]
             /\ djob.x[j] = DesignRow(dgeno, dcovars, CompleteSample(j))
       /\ DisjointMissing =>
             Len(djob.y) = Cardinality(JobSamples)
                - (Cardinality(MissingIn(dgeno)) + Cardinality(MissingIn(dout))
                   + Cardinality(MissingCovar(dcovars)))

\* A job was pushed for vectors with one missing genotype, one missing
\* outcome and one missing covariate value, each for another sample.
C16_Witness ==
    /\ djob.pushed
    /\ DisjointMissing
    /\ Cardinality(MissingIn(dgeno)) = 1
    /\ Cardinality(MissingIn(dout)) = 1
    /\ Cardinality(MissingCovar(dcovars)) = 1
    /\ Len(djob.y) = Cardinality(JobSamples) - 3

(***************************************************************************)
(* forward.genotype: the vectors of the catalog after experiment_init       *)
(***************************************************************************)
\* A name no variant of the file has.
UnknownVariant == "rs0"

\* The names get_genotypes finds: the index of the matrix of
\* MemoryImpute2Geno, the markers of the file of PlinkGenotypeDatabase.
GenotypesIndex ==
    IF gdb.cls = "MemoryImpute2Geno" THEN DOMAIN gdb.mat ELSE DOMAIN geno_file

\* get_genotypes(variant_name) raises ValueError.
GetGenotypesRaises(variant_name) == variant_name \notin GenotypesIndex

\* C17: once experiment_init has run, after any configuration calls, the
\* vector get_genotypes returns for every variant of the catalog has as many
\* values as get_sample_order() has samples, and get_genotypes of a name
\* no variant has raises.
C17_VectorsHaveSampleOrderLength ==
    gdb.frozen =>
       /\ \A name \in Catalog :
             /\ ~GetGenotypesRaises(name)
             /\ Len(get_genotypes(name)) = Len(genotypes_get_sample_order)
       /\ GetGenotypesRaises(UnknownVariant)

\* C18: once experiment_init has run, n_missing and n_non_missing of every
\* variant of the catalog are the numbers of missing and of non-missing
\* values of the vector get_genotypes returns for it, so that their sum is
\* the number of samples of get_sample_order(), also when samples were
\* excluded before experiment_init.
C18_CountsAreThoseOfReturnedVector ==
    gdb.frozen =>
       \A row \in variants_table :
          /\ row.n_missing = CountNaN(get_genotypes(row.name))
          /\ row.n_non_missing = CountNotNaN(get_genotypes(row.name))
          /\ row.n_missing + row.n_non_missing = Len(genotypes_get_sample_order)

(***************************************************************************)
(* forward.utils: push_work of SingleCoreWorkQueue and MultiprocessingQueue *)
(***************************************************************************)
\* The arguments push_work is called with: a tuple of the arguments of a
\* job, a list of them, or a number.
PushArguments ==
    {[type |-> t, arg |-> j] : t \in {"tuple", "list", "int"}, j \in Jobs}

\* Parallel(num_cpu, f): one of the two work queues, with empty buffers.
WInit ==
    /\ wq \in {[cls |-> c, job_queue |-> <<>>, results |-> <<>>,
                executed |-> 0] :
                  c \in {"SingleCoreWorkQueue", "MultiprocessingQueue"}}
    /\ wres = [method |-> "none", exc |-> "none"]
    /\ wn = 0
    /\ QIdle
    /\ GIdle
    /\ PIdle
    /\ EIdle
    /\ CIdle
    /\ RIdle
    /\ DIdle
    /\ YIdle

\* push_work(tu).  SingleCoreWorkQueue calls self.f(*tu) at once: the
\* unpacking raises TypeError for a number and goes through for a tuple and
\* for a list.  MultiprocessingQueue raises TypeError unless tu is a tuple
\* and puts it on the job queue.
WorkPushWork(tu) ==
    /\ wn < MaxCalls
    /\ wn' = wn + 1
    /\ IF wq.cls = "SingleCoreWorkQueue"
       THEN IF tu.type = "int"
            THEN /\ wres' = [method |-> "push_work", tu |-> tu,
                             exc |-> "TypeError"]
                 /\ UNCHANGED wq
            ELSE /\ wq' = [wq EXCEPT !.results = Append(@, f(tu)),
                                     !.executed = @ + 1]
                 /\ wres' = [method |-> "push_work", tu |-> tu,
                             exc |-> "none"]
       ELSE IF tu.type # "tuple"
            THEN /\ wres' = [method |-> "push_work", tu |-> tu,
                             exc |-> "TypeError"]
                 /\ UNCHANGED wq
            ELSE /\ wq' = [wq EXCEPT !.job_queue = Append(@, tu)]
                 /\ wres' = [method |-> "push_work", tu |-> tu,
                             exc |-> "none"]
    /\ UNCHANGED notWork

\* SingleCoreWorkQueue.get_result(): the last result of the list, or None.
WorkGetResult ==
    /\ wq.cls = "SingleCoreWorkQueue"
    /\ wn < MaxCalls
    /\ wn' = wn + 1
    /\ IF wq.results # <<>>
       THEN /\ wq' = [wq EXCEPT
                        !.results = SubSeq(@, 1, Len(@) - 1)]
            /\ wres' = [method |-> "get_result", exc |-> "none",
                        result |-> wq.results[Len(wq.results)]]
       ELSE /\ wres' = [method |-> "get_result", exc |-> "none",
                        result |-> None]
            /\ UNCHANGED wq
    /\ UNCHANGED notWork

\* A worker of MultiprocessingQueue takes a job, runs it and puts the
\* result on the results queue.
WorkProcess ==
    /\ wq.cls = "MultiprocessingQueue"
    /\ wq.job_queue # <<>>
    /\ wq' = [wq EXCEPT !.job_queue = Tail(@),
                        !.results = Append(@, f(Head(wq.job_queue))),
                        !.executed = @ + 1]
    /\ UNCHANGED <<wres, wn, notWork>>

WNext ==
    \/ \E tu \in PushArguments : WorkPushWork(tu)
    \/ WorkGetResult
    \/ WorkProcess

WorkQueueSpec == WInit /\ [][WNext]_vars

\* C19: push_work called with something that is not a tuple raises
\* TypeError, runs no job and leaves the job buffer and the result buffer
\* as they were, on both work queues.
C19_NonTupleRejected ==
    [][(wn' = wn + 1 /\ wres'.method = "push_work"
        /\ wres'.tu.type # "tuple")
       => /\ wres'.exc = "TypeError"
          /\ wq'.executed = wq.executed
          /\ wq'.job_queue = wq.job_queue
          /\ wq'.results = wq.results]_vars

(***************************************************************************)
(* forward.tasks: the rows of the tasks and their metadata                  *)
(***************************************************************************)
\* C21: every row a task adds to the results, whatever the class of the
\* task, is added by Experiment.add_result.
C21_RowsAddedByAddResult ==
    \A k \in DOMAIN rresults : rresults[k].via = "Experiment.add_result"

(***************************************************************************)
(* forward.phenotype.db: what the exclusions change                         *)
(***************************************************************************)
\* The kind of the variable of a name.
KindOf(name) ==
    ckinds[CHOOSE i \in DOMAIN VariableNames : VariableNames[i] = name]

\* C29: a set_experiment_variables call changes a value of the data only
\* from 0 to missing and only for a discrete variable that is not a
\* covariate: a case, a missing value, a value of a continuous variable or
\* of a covariate stay as they are, and so do the variables and the samples
\* of the data; exclude_correlated changes no value.
C29_OnlyControlsOfOutcomesNulled ==
    [][/\ (cn' = cn + 1 /\ cres'.method = "set_experiment_variables") =>
            /\ DOMAIN cdata' = DOMAIN cdata
            /\ \A name \in DOMAIN cdata :
                  /\ DOMAIN cdata'[name] = DOMAIN cdata[name]
                  /\ \A k \in DOMAIN cdata[name] :
                        cdata'[name][k] # cdata[name][k] =>
                           /\ cdata[name][k] = 0
                           /\ IsNaN(cdata'[name][k])
                           /\ KindOf(name).variable_type = "discrete"
                           /\ ~KindOf(name).is_covariate
       /\ (cn' = cn + 1 /\ cres'.method = "exclude_correlated") =>
            cdata' = cdata]_vars

\* The exclusions were computed: a control of an outcome was set to
\* missing, a case of an outcome was kept, and a control of a covariate or
\* of a continuous variable was kept.
C29_Witness ==
    /\ ExclusionsComputed
    /\ \E name \in DOMAIN cdata, k \in 1..NSamples :
          /\ cres.before[name][k] = 0
          /\ IsNaN(cdata[name][k])
    /\ \E name \in DOMAIN cdata, k \in 1..NSamples :
          /\ IsDiscreteOutcome(KindOf(name))
          /\ cdata[name][k] = 1
    /\ \E name \in DOMAIN cdata, k \in 1..NSamples :
          /\ KindOf(name).is_covariate
                \/ KindOf(name).variable_type = "continuous"
          /\ cres.before[name][k] = 0
          /\ cdata[name][k] = 0

\* The variables in the order of VariableNames.
InOrder == [i \in DOMAIN VariableNames |-> i]

\* C30: whatever the order of the list of a set_experiment_variables call,
\* the data the call leaves is the data the computation leaves for the
\* same variables in the order of VariableNames, so that every order of
\* the list leaves the same data.
C30_ExclusionsIndependentOfOrder ==
    [][(/\ cn' = cn + 1
        /\ cres'.method = "set_experiment_variables"
        /\ cres'.exc = "none"
        /\ cdb.requested)
       => ExclusionData(InOrder, cdata, cdb.mappings).data = cdata']_vars

\* The exclusions were computed and have set a control to missing for two
\* variables that are related to each other.
C30_Witness ==
    /\ ExclusionsComputed
    /\ \E pair \in RelatedPairs :
          /\ \E k \in 1..NSamples :
                /\ cres.before[VariableNames[pair[1]]][k] = 0
                /\ IsNaN(cdata[VariableNames[pair[1]]][k])
          /\ \E k \in 1..NSamples :
                /\ cres.before[VariableNames[pair[2]]][k] = 0
                /\ IsNaN(cdata[VariableNames[pair[2]]][k])

\* The Variable of the experiment of a name.
VariableOf(name) ==
    ExperimentVariables[CHOOSE k \in DOMAIN ExperimentVariables :
                           ExperimentVariables[k].name = name]

\* The names of the variables of the experiment.
ExperimentNames ==
    {ExperimentVariables[k].name : k \in DOMAIN ExperimentVariables}

\* C25: run_task turns outcomes "all" into the variables of the experiment
\* that are not covariates, covariates "all" into those that are, and a
\* list of names into the variables of these names; every row of a
\* LogisticTest is the result of a test of a discrete outcome, every row of
\* a LinearTest of a test of a continuous outcome, and none of them of a
\* covariate.
C25_ScopeResolvedAndFilteredByKind ==
    /\ [][(rcalls' = rcalls + 1 /\ rres'.method = "run_task") =>
            LET before == rtasks[rres'.task]
                after == rtasks'[rres'.task]
            IN /\ before.outcomes.kind = "all" =>
                     SetOf(after.outcomes.items) =
                        {n \in ExperimentNames : ~VariableOf(n).is_covariate}
               /\ before.covariates.kind = "all" =>
                     SetOf(after.covariates.items) =
                        {n \in ExperimentNames : VariableOf(n).is_covariate}
               /\ before.outcomes.kind = "names" =>
                     SetOf(after.outcomes.items) =
                        SetOf(before.outcomes.items) \cap ExperimentNames
               /\ before.covariates.kind = "names" =>
                     SetOf(after.covariates.items) =
                        SetOf(before.covariates.items) \cap ExperimentNames
               /\ after.outcomes.kind = "variables"
               /\ after.covariates.kind = "variables"]_vars
    /\ [](\A k \in DOMAIN rresults :
             LET row == rresults[k]
                 outcome == VariableOf(row.test.phenotype)
             IN /\ row.task_name[2] = "LogisticTest" =>
                      outcome.cls = "DiscreteVariable"
                /\ row.task_name[2] = "LinearTest" =>
                      outcome.cls = "ContinuousVariable"
                /\ ~outcome.is_covariate)

\* A LogisticTest and a LinearTest, both with outcomes "all", have added
\* their rows: the first for the discrete outcome, the second for the
\* continuous one.
C25_Witness ==
    /\ \E k \in DOMAIN rresults :
          /\ rresults[k].task_name[2] = "LogisticTest"
          /\ rresults[k].test.phenotype = "y1"
          /\ rres.before[rresults[k].task_name[1]].outcomes.kind = "all"
    /\ \E k \in DOMAIN rresults :
          /\ rresults[k].task_name[2] = "LinearTest"
          /\ rresults[k].test.phenotype = "y2"
          /\ rres.before[rresults[k].task_name[1]].outcomes.kind = "all"

\* The outcomes of the tests of task i, and the covariates of their design
\* matrices.
OutcomesRun(i) ==
    {rresults[k].test.phenotype :
        k \in {l \in DOMAIN rresults : rresults[l].task_name[1] = i}}

CovariatesRun(i) ==
    UNION {SetOf(rresults[k].test.covariates) :
              k \in {l \in DOMAIN rresults : rresults[l].task_name[1] = i}}

\* C26: the "outcomes" entry of the metadata done has written for a task
\* lists the outcomes the task has run tests for, and the "covariates"
\* entry the covariates of its design matrices.
C26_MetadataIsScopeRun ==
    \A written \in rfs.pickled :
       /\ SetOf(written.info.outcomes) = OutcomesRun(written.task)
       /\ OutcomesRun(written.task) # {} =>
             SetOf(written.info.covariates) = CovariatesRun(written.task)

(***************************************************************************)
(* forward.utils: SingleCoreWorkQueue and MultiprocessingQueue given the    *)
(* same target function and the same calls                                  *)
(***************************************************************************)
\* What _work returns when the fit has raised: an empty
\* collections.defaultdict(lambda: None).
FailedResult == [type |-> "defaultdict", arg |-> 0]

\* The target function of the two queues: _work, whose fit raises for the
\* jobs of fails.
Work(job, fails) == IF job.arg \in fails THEN FailedResult ELSE f(job)

\* Queue.put pickles the object in the feeder thread of the queue; a
\* defaultdict whose default_factory is a lambda cannot be pickled, the
\* error is reported by that thread and the object is dropped.
Picklable(result) == result.type # "defaultdict"

\* Parallel(1, f) and Parallel(num_cpu, f) with num_cpu = MaxWorkers, both
\* new, with the same target function.
BInit ==
    /\ bsingle = <<>>
    /\ bmulti = [job_queue |-> <<>>, results_queue |-> <<>>,
                 held |-> [p \in 1..MaxWorkers |->
                             [pc |-> "get", data |-> None]]]
    /\ btaken = [single |-> <<>>, multi |-> <<>>]
    /\ bpc \in {[at |-> "pushing", pushed |-> <<>>, fails |-> fails] :
                   fails \in SUBSET Jobs}
    /\ QIdle
    /\ GIdle
    /\ PIdle
    /\ EIdle
    /\ CIdle
    /\ RIdle
    /\ DIdle
    /\ WIdle
    /\ TIdle

\* push_work(tu) on both queues: the first runs the job at once and keeps
\* its result, the second puts the tuple on its job queue.
BothPushWork(j) ==
    /\ bpc.at = "pushing"
    /\ Len(bpc.pushed) < MaxJobs
    /\ bpc' = [bpc EXCEPT !.pushed = Append(@, j)]
    /\ bsingle' = Append(bsingle, Work(JobTuple(j), bpc.fails))
    /\ bmulti' = [bmulti EXCEPT !.job_queue = Append(@, JobTuple(j))]
    /\ UNCHANGED <<btaken, notBoth>>

\* done_pushing() on both queues: nothing for the first, the sentinel for
\* the second.
BothDonePushing ==
    /\ bpc.at = "pushing"
    /\ bpc' = [bpc EXCEPT !.at = "draining"]
    /\ bmulti' = [bmulti EXCEPT !.job_queue = Append(@, None)]
    /\ UNCHANGED <<bsingle, btaken, notBoth>>

\* get_result() on both queues, once a result waits in each: the first
\* pops the last result of its list, the second takes the head of its
\* results queue.
BothGetResult ==
    /\ bpc.at = "draining"
    /\ bsingle # <<>>
    /\ bmulti.results_queue # <<>>
    /\ bsingle' = SubSeq(bsingle, 1, Len(bsingle) - 1)
    /\ bmulti' = [bmulti EXCEPT !.results_queue = Tail(@)]
    /\ btaken' = [single |-> Append(btaken.single, bsingle[Len(bsingle)]),
                  multi |-> Append(btaken.multi,
                                   Head(bmulti.results_queue))]
    /\ UNCHANGED <<bpc, notBoth>>

\* _process of a worker of the second queue: data = self.job_queue.get();
\* the sentinel is put back and the worker ends.
BothWorkerGet(p) ==
    /\ bmulti.held[p].pc = "get"
    /\ bmulti.job_queue # <<>>
    /\ LET head == Head(bmulti.job_queue)
       IN bmulti' = IF head = None
                    THEN [bmulti EXCEPT !.held[p].pc = "exited"]
                    ELSE [bmulti EXCEPT !.job_queue = Tail(@),
                                        !.held[p] = [pc |-> "run",
                                                     data |-> head]]
    /\ UNCHANGED <<bsingle, btaken, bpc, notBoth>>

\* _process: results = self.f(*data); self.results_queue.put(results).
BothWorkerRun(p) ==
    /\ bmulti.held[p].pc = "run"
    /\ LET results == Work(bmulti.held[p].data, bpc.fails)
       IN bmulti' = [bmulti EXCEPT
                       !.held[p] = [pc |-> "get", data |-> None],
                       !.results_queue = IF Picklable(results)
                                         THEN Append(@, results) ELSE @]
    /\ UNCHANGED <<bsingle, btaken, bpc, notBoth>>

BNext ==
    \/ \E j \in Jobs : BothPushWork(j)
    \/ BothDonePushing
    \/ BothGetResult
    \/ \E p \in 1..MaxWorkers : BothWorkerGet(p)
    \/ \E p \in 1..MaxWorkers : BothWorkerRun(p)

BothSpec == BInit /\ [][BNext]_vars

\* The results a queue can return at all.
AllResults == {FailedResult} \cup {f(JobTuple(j)) : j \in Jobs}

\* C22: given the same target function and the same push_work calls
\* followed by done_pushing, the results drained from the single-worker
\* queue and from the multi-worker queue are the same multiset after every
\* number of get_result calls, and once the single-worker queue is drained
\* the multi-worker queue is too, with no result lost.
C22_QueuesInterchangeable ==
    /\ \A r \in AllResults :
          CountIn(btaken.single, r) = CountIn(btaken.multi, r)
    /\ (/\ bpc.at = "draining"
        /\ bmulti.job_queue = <<None>>
        /\ \A p \in 1..MaxWorkers : bmulti.held[p].pc # "run")
       => Len(bmulti.results_queue) = Len(bsingle)

(***************************************************************************)
(* forward.experiment.Experiment.run_tasks with LogisticTest and LinearTest *)
(* tasks, step by step                                                      *)
(***************************************************************************)
\* The tests of task i: its outcomes after the scope resolution and the
\* filter, for every variant.
TaskTests(i) ==
    TestsOf(FilterVariables(AbstractRunTask(
       [cls |-> ttasks[i], outcomes |-> All, covariates |-> All,
        variants |-> "all",
        info |-> [outcomes |-> <<>>, covariates |-> <<>>]]).task))

\* The sentinel of a job queue.
NoJob == [task |-> 0, k |-> 0]

\* What _work returns for a job: the statistics with the entity_name and
\* the phenotype of the job, or the empty defaultdict of a failed fit.
WorkResult(job, failed) ==
    IF failed
    THEN [type |-> "defaultdict", entity_name |-> Null, phenotype |-> Null,
          job |-> job]
    ELSE [type |-> "dict",
          entity_name |-> TaskTests(job.task)[job.k].entity_name,
          phenotype |-> TaskTests(job.task)[job.k].phenotype,
          job |-> job]

\* Parallel(experiment.cpu, self._work)
NewParallel ==
    [job_queue |-> <<>>, results |-> <<>>,
     held |-> IF tcpu = 1 THEN <<>>
              ELSE [p \in 1..tcpu |-> [pc |-> "get", data |-> NoJob]]]

\* A constructed Experiment with its regression tasks.
TInit ==
    /\ tcpu \in 1..MaxWorkers
    /\ ttasks \in UNION {[1..n -> {"LogisticTest", "LinearTest"}] :
                           n \in 1..MaxTasks}
    /\ tpc = [at |-> "idle", i |-> 0, k |-> 0, num_tests |-> 0]
    /\ tqueue = [job_queue |-> <<>>, results |-> <<>>, held |-> <<>>]
    /\ trows = <<>>
    /\ thist = [pushed |-> {}, run |-> {}, lost |-> {}, started |-> <<>>,
                done |-> <<>>]
    /\ QIdle
    /\ GIdle
    /\ PIdle
    /\ EIdle
    /\ CIdle
    /\ RIdle
    /\ DIdle
    /\ WIdle
    /\ BIdle

\* run_tasks(): the call starts.
TasksBegin ==
    /\ tpc.at = "idle"
    /\ tpc' = [tpc EXCEPT !.at = "loop", !.i = 1]
    /\ UNCHANGED <<tcpu, ttasks, tqueue, trows, thist, notTasks>>

\* run_task of task i, up to the work queue it creates.
TaskRunTask ==
    /\ tpc.at = "loop"
    /\ tpc.i <= Len(ttasks)
    /\ tqueue' = NewParallel
    /\ tpc' = [tpc EXCEPT !.at = "push", !.k = 1, !.num_tests = 0]
    /\ thist' = [thist EXCEPT !.started = Append(@, tpc.i)]
    /\ UNCHANGED <<tcpu, ttasks, trows, notTasks>>

\* The body of the loops of run_task: push_work of the job of a test.  The
\* single-worker queue runs _work at once.
TaskPushWork ==
    /\ tpc.at = "push"
    /\ tpc.k <= Len(TaskTests(tpc.i))
    /\ LET job == [task |-> tpc.i, k |-> tpc.k]
       IN /\ IF tcpu = 1
             THEN \E failed \in BOOLEAN :
                     /\ tqueue' = [tqueue EXCEPT !.results =
                                      Append(@, WorkResult(job, failed))]
                     /\ thist' = [thist EXCEPT !.pushed = @ \cup {job},
                                               !.run = @ \cup {job}]
             ELSE /\ tqueue' = [tqueue EXCEPT !.job_queue = Append(@, job)]
                  /\ thist' = [thist EXCEPT !.pushed = @ \cup {job}]
          /\ tpc' = [tpc EXCEPT !.k = @ + 1, !.num_tests = @ + 1]
    /\ UNCHANGED <<tcpu, ttasks, trows, notTasks>>

\* self.parallel.done_pushing()
TaskDonePushing ==
    /\ tpc.at = "push"
    /\ tpc.k > Len(TaskTests(tpc.i))
    /\ tqueue' = IF tcpu = 1 THEN tqueue
                 ELSE [tqueue EXCEPT !.job_queue = Append(@, NoJob)]
    /\ tpc' = [tpc EXCEPT !.at = "drain"]
    /\ UNCHANGED <<tcpu, ttasks, trows, thist, notTasks>>

\* The row _add_result adds for a result.
RowOfResult(results) ==
    [task |-> tpc.i, entity_name |-> results.entity_name,
     phenotype |-> results.phenotype, job |-> results.job]

\* The body of the loop on num_tests: get_result, which waits for a result
\* of the workers when there are several, and _add_result.
TaskGetResult ==
    /\ tpc.at = "drain"
    /\ tpc.num_tests > 0
    /\ tqueue.results # <<>>
    /\ LET results == IF tcpu = 1
                      THEN tqueue.results[Len(tqueue.results)]
                      ELSE Head(tqueue.results)
       IN /\ trows' = Append(trows, RowOfResult(results))
          /\ tqueue' = [tqueue EXCEPT !.results =
                           IF tcpu = 1 THEN SubSeq(@, 1, Len(@) - 1)
                           ELSE Tail(@)]
    /\ tpc' = [tpc EXCEPT !.num_tests = @ - 1]
    /\ UNCHANGED <<tcpu, ttasks, thist, notTasks>>

TaskDone_WithoutDraining ==
    /\ tpc.at = "drain"
    /\ thist' = [thist EXCEPT !.done = Append(@, tpc.i)]
    /\ tpc' = [tpc EXCEPT !.at = "loop", !.i = @ + 1]
    /\ UNCHANGED <<tcpu, ttasks, tqueue, trows, notTasks>>

\* run_task returns when num_tests is 0, and run_tasks calls done.
TaskDone ==
    /\ tpc.at = "drain"
    /\ tpc.num_tests = 0
    /\ thist' = [thist EXCEPT !.done = Append(@, tpc.i)]
    /\ tpc' = [tpc EXCEPT !.at = "loop", !.i = @ + 1]
    /\ UNCHANGED <<tcpu, ttasks, tqueue, trows, notTasks>>

\* run_tasks() after the loop.
TasksEnd ==
    /\ tpc.at = "loop"
    /\ tpc.i > Len(ttasks)
    /\ tpc' = [tpc EXCEPT !.at = "end"]
    /\ UNCHANGED <<tcpu, ttasks, tqueue, trows, thist, notTasks>>

\* _process of a worker: data = self.job_queue.get(); the sentinel is put
\* back and the worker ends.
TaskWorkerGet(p) ==
    /\ p \in DOMAIN tqueue.held
    /\ tqueue.held[p].pc = "get"
    /\ tqueue.job_queue # <<>>
    /\ LET head == Head(tqueue.job_queue)
       IN tqueue' = IF head = NoJob
                    THEN [tqueue EXCEPT !.held[p].pc = "exited"]
                    ELSE [tqueue EXCEPT !.job_queue = Tail(@),
                                        !.held[p] = [pc |-> "run",
                                                     data |-> head]]
    /\ UNCHANGED <<tcpu, ttasks, tpc, trows, thist, notTasks>>

\* _process: results = self.f(*data); self.results_queue.put(results).
\* The result of a failed fit cannot be pickled and is dropped by the
\* feeder thread of the queue.
TaskWorkerRun(p) ==
    /\ p \in DOMAIN tqueue.held
    /\ tqueue.held[p].pc = "run"
    /\ \E failed \in BOOLEAN :
          LET job == tqueue.held[p].data
              results == WorkResult(job, failed)
          IN /\ tqueue' = [tqueue EXCEPT
                             !.held[p] = [pc |-> "get", data |-> NoJob],
                             !.results = IF Picklable(results)
                                         THEN Append(@, results) ELSE @]
             /\ thist' = [thist EXCEPT
                            !.run = @ \cup {job},
                            !.lost = IF Picklable(results) THEN @
                                     ELSE @ \cup {job}]
    /\ UNCHANGED <<tcpu, ttasks, tpc, trows, notTasks>>

TNext ==
    \/ TasksBegin
    \/ TaskRunTask
    \/ TaskPushWork
    \/ TaskDonePushing
    \/ TaskGetResult
    \/ TaskDone
    \/ TasksEnd
    \/ \E p \in 1..MaxWorkers : TaskWorkerGet(p)
    \/ \E p \in 1..MaxWorkers : TaskWorkerRun(p)

TasksSpec == TInit /\ [][TNext]_vars

\* The rows added for a job, and the jobs task i has pushed.
RowsOfJob(job) == {k \in DOMAIN trows : trows[k].job = job}

JobsPushed(i) == {job \in thist.pushed : job.task = i}

\* C23: a row is added only for a job that was pushed before; when done of
\* a task runs, every job the task has pushed has its row; the tasks start
\* in configured order, each after done of the one before it.
C23_RowsAfterPushAndBeforeDone ==
    [][/\ Len(trows') > Len(trows) =>
            /\ Len(trows') = Len(trows) + 1
            /\ trows'[Len(trows')].job \in thist.pushed
            /\ trows'[Len(trows')].job.task = tpc.i
       /\ Len(thist'.done) > Len(thist.done) =>
            /\ thist'.done = Append(thist.done, tpc.i)
            /\ \A job \in JobsPushed(tpc.i) :
                  Cardinality(RowsOfJob(job)) = 1
            /\ Len(trows) = Cardinality(thist.pushed)
       /\ Len(thist'.started) > Len(thist.started) =>
            /\ thist'.started = Append(thist.started, Len(thist.started) + 1)
            /\ thist.done = thist.started]_vars

\* Two tasks have run with several workers, each has pushed its jobs,
\* drained their results and was done before the next one started.
C23_Witness ==
    /\ tpc.at = "end"
    /\ tcpu > 1
    /\ Len(ttasks) = 2
    /\ thist.done = <<1, 2>>
    /\ Len(trows) = Cardinality(thist.pushed)
    /\ Len(trows) >= 4

\* C24: every job that has run has yielded exactly one result, which waits
\* in the queue or has its row, whether its fit failed or not; no worker
\* has ended before done_pushing; and a task that is done has one row for
\* each job it pushed.
C24_EveryJobYieldsOneRow ==
    /\ \A job \in thist.run :
          Cardinality({k \in DOMAIN tqueue.results :
                          tqueue.results[k].job = job})
             + Cardinality(RowsOfJob(job)) = 1
    /\ \A p \in DOMAIN tqueue.held :
          tqueue.held[p].pc = "exited" => tpc.at # "push"
    /\ \A k \in DOMAIN thist.done :
          \A job \in JobsPushed(thist.done[k]) :
             Cardinality(RowsOfJob(job)) = 1

\* The test of the job a row was added for.
TestOfRow(row) == TaskTests(row.job.task)[row.job.k]

\* C28: every row of a regression task has the entity_name and the
\* phenotype of its job, the row of a failed fit included.
C28_RowsIdentifyTheirJob ==
    \A k \in DOMAIN trows :
       /\ trows[k].entity_name = TestOfRow(trows[k]).entity_name
       /\ trows[k].phenotype = TestOfRow(trows[k]).phenotype

=============================================================================
